---- MODULE Spec2Model ----
(***************************************************************************)
(* worktreeflow (src/src/worktreeflow/wtf.py): the branch-synchronisation  *)
(* and worktree-lifecycle commands of GitWorkflowManager, as a state       *)
(* machine over the refs of the local repository, the two remotes, the     *)
(* registered worktrees and the directories of the worktree area.          *)
(*                                                                         *)
(* Strings (branch names, slugs, paths) are sequences of one-character     *)
(* strings.  A commit is the sequence of the commit labels on its          *)
(* first-parent chain, so "a is an ancestor of b" is "a is a prefix of b".  *)
(***************************************************************************)
EXTENDS Integers, Sequences, FiniteSets, TLC

VARIABLES
    heads,          \* repo.heads: local branch name -> commit
    head,           \* repo.head of the main working tree: a branch name, or Detached
    dirty,          \* main working tree: "clean", "untracked" or "modified"
    upstreamRemote, \* tip of base in the upstream repository itself
    originRemote,   \* tip of base in the fork (origin) repository itself
    upstreamRef,    \* remote-tracking ref upstream/base
    originRef,      \* remote-tracking ref origin/base
    clock,          \* datetime.now(), in seconds
    worktrees,      \* registered linked worktrees: path -> [branch, dirty,
                    \* stashed, conflicted]
    plainDirs,      \* directories that exist without being a worktree
    remoteFeat,     \* feature branches that exist on origin
    prs,            \* feature branches with a review request on the forge
    cwd,            \* Path.cwd() of the next invocation
    last            \* what the last invocation did (cmd, flags, exit code, ops)

vars == <<heads, head, dirty, upstreamRemote, originRemote, upstreamRef,
          originRef, clock, worktrees, plainDirs, remoteFeat, prs, cwd, last>>

repoVars == <<heads, head, dirty, upstreamRemote, originRemote, upstreamRef,
              originRef, worktrees, plainDirs, remoteFeat, prs>>

----------------------------------------------------------------------------
(* Bounds of the model *)

\* longest first-parent chain of a commit
MaxLen == 1
\* last second of the clock
MaxClock == 1

----------------------------------------------------------------------------
(* RepoConfig *)

DEFAULT_BASE_BRANCH == <<"m", "a", "i", "n">>
FEATURE_BRANCH_PREFIX == <<"f", "e", "a", "t", "/">>
BACKUP_BRANCH_PREFIX == <<"b", "a", "c", "k", "u", "p", "/">>

base == DEFAULT_BASE_BRANCH

\* repo.active_branch raises TypeError: current_branch is None
Detached == <<>>

----------------------------------------------------------------------------
(* Commits *)

IsAncestor(a, b) == Len(a) <= Len(b) /\ SubSeq(b, 1, Len(a)) = a

\* repo.merge_base(a, b)[0]: the longest common prefix
RECURSIVE CommonLen(_, _, _)
CommonLen(a, b, i) ==
    IF i < Len(a) /\ i < Len(b) /\ a[i + 1] = b[i + 1]
    THEN CommonLen(a, b, i + 1) ELSE i

merge_base(a, b) == SubSeq(a, 1, CommonLen(a, b, 0))

\* list(repo.iter_commits("a..b")): the commits reachable from b and not from a
iter_commits(a, b) ==
    { SubSeq(b, 1, n) : n \in (CommonLen(a, b, 0) + 1) .. Len(b) }

----------------------------------------------------------------------------
(* Strings and paths *)

IsPrefix(s, t) == Len(s) <= Len(t) /\ SubSeq(t, 1, Len(s)) = s

\* s occurs in t, starting at some position
IsSubstring(s, t) ==
    \E i \in 0 .. (Len(t) - Len(s)) : SubSeq(t, i + 1, i + Len(s)) = s

\* index of the last "/" of p (0 when there is none)
RECURSIVE LastSlash(_, _)
LastSlash(p, i) == IF i = 0 \/ p[i] = "/" THEN i ELSE LastSlash(p, i - 1)

\* Path.parent and Path.name
Parent(p) == SubSeq(p, 1, LastSlash(p, Len(p)) - 1)
Name(p) == SubSeq(p, LastSlash(p, Len(p)) + 1, Len(p))

\* d \in Path(p).parents, for a directory d below the filesystem root
IsParent(d, p) ==
    Len(d) < Len(p) /\ p[Len(d) + 1] = "/" /\ SubSeq(p, 1, Len(d)) = d

\* pathlib's "/" operator: an empty right operand adds nothing, an absolute
\* one replaces the left operand
Join(p, s) ==
    IF s = <<>> THEN p ELSE IF s[1] = "/" THEN s ELSE p \o <<"/">> \o s

\* the main working tree of the repository: {parent}/{repo_name}
RepoRoot == <<"/", "p", "/", "r">>
WtDirName == <<"w", "t">>

\* GitWorkflowManager._get_worktree_path
GetWorktreePath(root, slug) ==
    Join(Join(Join(Parent(root), WtDirName), Name(root)), slug)

\* the feature slugs the commands are invoked with
Slugs == { <<"a">>, <<"a", "b">> }

\* branch_name = f"feat/{slug}"
BranchName(slug) == FEATURE_BRANCH_PREFIX \o slug

\* strftime('%Y%m%d-%H%M%S') of the clock: one stamp per second
Digits == <<"0", "1", "2", "3", "4", "5", "6", "7", "8", "9">>
Stamp(t) == <<Digits[t + 1]>>

\* backup_branch = f"backup/{base}-{timestamp}"
BackupName(b, t) == BACKUP_BRANCH_PREFIX \o b \o <<"-">> \o Stamp(t)

IsBackup(n) == IsPrefix(BACKUP_BRANCH_PREFIX, n)

----------------------------------------------------------------------------
(* The record of an invocation *)

NoSlug == <<>>

Result(cmd, slug, flags, exit, outcome, ops) ==
    [cmd |-> cmd, slug |-> slug, flags |-> flags, exit |-> exit,
     outcome |-> outcome, ops |-> ops]

\* a step of the user or of another actor: not an invocation of the tool
NoCmd == Result("none", NoSlug, {}, 0, "none", <<>>)

Flags(names, values) == { names[i] : i \in { j \in DOMAIN names : values[j] } }

----------------------------------------------------------------------------
(* Repository discovery *)

\* the directories that hold a .git entry
GitDirs == {RepoRoot} \cup DOMAIN worktrees

\* Repo(search_parent_directories=True).working_tree_dir: the nearest
\* directory at or above the working directory that holds a .git entry
RootCandidates(dir) == { d \in GitDirs : d = dir \/ IsParent(d, dir) }

HasRepo(dir) == RootCandidates(dir) # {}

Root(dir) ==
    LET found == RootCandidates(dir) IN
    CHOOSE d \in found : \A e \in found : Len(e) <= Len(d)

\* the sync commands and wt_new are modelled for invocations from the main
\* working tree
InMainTree == HasRepo(cwd) /\ Root(cwd) = RepoRoot

----------------------------------------------------------------------------
(* Sync operations *)

UncommittedNever == FALSE

\* SafetyValidator.check_uncommitted_changes(repo, stash=False) raises:
\* repo.is_dirty(untracked_files=True)
UncommittedChanges == dirty # "clean"

\* repo.is_dirty(): untracked files do not count
IsDirty == dirty = "modified"

NothingNewNever(local, up) == FALSE

\* sync_main: "if new_commits: ... else: Already up-to-date; return"
NothingNew(local, up) == iter_commits(local, up) = {}

\* a divergence check that never fires
DivergedNever(local, up) == FALSE

\* sync_main: "if merge_base[0] != self.repo.head.commit: raise"
Diverged(local, up) == merge_base(local, up) # local

\* remote.push(refspec) without force: the server takes a fast-forward only
PushAccepted(remoteTip, new) == IsAncestor(remoteTip, new)

\* the transport to the remotes during one invocation: at most one call fails
Nets == {"ok", "no fetch origin", "no fetch upstream", "no push"}

PreviewNever(dry_run_preview) == FALSE

\* wt_update and wt_clean: "if dry_run_preview: ... return"
Preview(dry_run_preview) == dry_run_preview

ExecutesAlways(dry) == TRUE

\* BashCommandLogger.execute and the "if not self.dry_run" guards around the
\* GitPython calls: whether the commands of an invocation are carried out
Executes(dry) == ~dry

\* what a command leaves behind: the refs it may have moved and its record
Effect(h, hd, dt, ur, om, orf, exit, outcome, ops) ==
    [heads |-> h, head |-> hd, dirty |-> dt, upstreamRef |-> ur,
     originRemote |-> om, originRef |-> orf,
     exit |-> exit, outcome |-> outcome, ops |-> ops]

\* a command that stops before it has touched anything
Untouched(exit, outcome, ops) ==
    Effect(heads, head, dirty, upstreamRef, originRemote, originRef,
           exit, outcome, ops)

\* GitWorkflowManager.sync_main(base).  dry: the --dry-run flag;
\* net: which call to a remote fails, if any
sync_main(dry, net) ==
    IF UncommittedChanges THEN Untouched(1, "uncommitted", <<>>)
    ELSE IF ~Executes(dry) THEN Untouched(0, "done", <<>>)
    ELSE IF net = "no fetch upstream"
    THEN Untouched(1, "fetchFailed", <<"fetch upstream">>)
    ELSE
      LET up == upstreamRemote
          local == heads[base]
      IN
      IF NothingNew(local, up)
      THEN Effect(heads, head, dirty, up, originRemote, originRef,
                  0, "upToDate", <<"fetch upstream">>)
      ELSE IF Diverged(local, up)
      THEN Effect(heads, base, dirty, up, originRemote, originRef,
                  1, "blockedDiverged", <<"fetch upstream", "switch">>)
      ELSE
        LET h2 == [heads EXCEPT ![base] = up]
            ops == <<"fetch upstream", "switch", "reset", "push">>
        IN
        IF net = "no push"
        THEN Effect(h2, base, dirty, up, originRemote, originRef,
                    1, "pushFailed", ops)
        ELSE IF PushAccepted(originRemote, up)
        THEN Effect(h2, base, dirty, up, up, up, 0, "done", ops)
        ELSE Effect(h2, base, dirty, up, originRemote, originRef,
                    0, "pushRejected", ops)

Apply(e) ==
    /\ heads' = e.heads
    /\ head' = e.head
    /\ dirty' = e.dirty
    /\ upstreamRef' = e.upstreamRef
    /\ originRemote' = e.originRemote
    /\ originRef' = e.originRef

SyncMain ==
    /\ InMainTree
    /\ \E dry \in BOOLEAN :
       \E e \in { sync_main(dry, net) : net \in Nets } :
         /\ Apply(e)
         /\ last' = Result("sync_main", NoSlug, Flags(<<"dry_run">>, <<dry>>),
                           e.exit, e.outcome, e.ops)
    /\ UNCHANGED <<upstreamRemote, clock, worktrees, plainDirs, remoteFeat,
                   prs, cwd>>

\* a confirmation gate that never fires
UnconfirmedNever(confirm) == FALSE

\* sync_main_force: "if not confirm: ... sys.exit(1)"
Unconfirmed(confirm) == ~confirm

\* sync_main_force: "if self.repo.is_dirty() and not force: sys.exit(1)"
DirtyBlocks(force) == IsDirty /\ ~force

\* git branch -f: a name that exists is taken over
CanCreateHeadForce(h, name) == TRUE

\* repo.create_head(name): git branch refuses a name that exists
CanCreateHead(h, name) == name \notin DOMAIN h

\* repo.create_head(name): the new branch points at HEAD
create_head(h, name, at) == [n \in DOMAIN h \cup {name} |-> IF n = name THEN at ELSE h[n]]

\* remote.push(refspec, force=True): git push --force, whatever the remote holds
ForcePushAccepted(remoteTip, tracked, new) == TRUE

\* repo.head.reset(commit, index=True, working_tree=True): tracked changes go
AfterReset(d) == IF d = "modified" THEN "clean" ELSE d

\* GitWorkflowManager.sync_main_force(base, confirm, force)
sync_main_force(confirm, force, dry, net) ==
    IF Unconfirmed(confirm) THEN Untouched(1, "unconfirmed", <<>>)
    ELSE
      LET switch == head # base /\ Executes(dry)
          hd == IF switch THEN base ELSE head
          ops1 == IF switch THEN <<"switch">> ELSE <<>>
      IN
      IF DirtyBlocks(force)
      THEN Effect(heads, hd, dirty, upstreamRef, originRemote, originRef,
                  1, "uncommitted", ops1)
      ELSE IF ~Executes(dry) THEN Untouched(0, "done", <<>>)
      ELSE
        LET backup_branch == BackupName(base, clock)
            ops2 == Append(ops1, "branch")
        IN
        IF ~CanCreateHead(heads, backup_branch)
        THEN Effect(heads, hd, dirty, upstreamRef, originRemote, originRef,
                    1, "backupFailed", ops2)
        ELSE
          LET h2 == create_head(heads, backup_branch, heads[base])
              ops3 == Append(ops2, "fetch upstream")
          IN
          IF net = "no fetch upstream"
          THEN Effect(h2, hd, dirty, upstreamRef, originRemote, originRef,
                      1, "fetchFailed", ops3)
          ELSE
            LET up == upstreamRemote
                h3 == [h2 EXCEPT ![base] = up]
                ops4 == ops3 \o <<"reset", "push --force">>
            IN
            IF net # "no push" /\ ForcePushAccepted(originRemote, originRef, up)
            THEN Effect(h3, hd, AfterReset(dirty), up, up, up, 0, "done", ops4)
            ELSE Effect(h3, hd, AfterReset(dirty), up, originRemote, originRef,
                        1, "pushFailed", ops4)

SyncMainForce ==
    /\ InMainTree
    /\ \E confirm \in BOOLEAN, force \in BOOLEAN, dry \in BOOLEAN :
       \E e \in { sync_main_force(confirm, force, dry, net) : net \in Nets } :
         /\ Apply(e)
         /\ last' = Result("sync_main_force", NoSlug,
                           Flags(<<"confirm", "force", "dry_run">>,
                                 <<confirm, force, dry>>),
                           e.exit, e.outcome, e.ops)
    /\ UNCHANGED <<upstreamRemote, clock, worktrees, plainDirs, remoteFeat,
                   prs, cwd>>

\* an unpushed-commits check that never fires
UnpushedNever(local, origin) == FALSE

\* zero_ffsync: "unpushed = list(iter_commits(origin/base..base)); if unpushed"
Unpushed(local, origin) == iter_commits(origin, local) # {}

\* a fork-divergence check that never fires
OriginDivergedNever(origin, up) == FALSE

\* zero_ffsync: "if merge_base[0] != origin_ref.commit: ... sys.exit(1)"
OriginDiverged(origin, up) == merge_base(origin, up) # origin

zero_ffsync_with_checkout(dry, net) == sync_main(dry, net)

\* GitWorkflowManager.zero_ffsync(base)
zero_ffsync(dry, net) ==
    IF ~Executes(dry) THEN Untouched(0, "done", <<>>)
    ELSE IF net = "no fetch origin"
    THEN Untouched(1, "fetchFailed", <<"fetch origin">>)
    ELSE IF net = "no fetch upstream"
    THEN Effect(heads, head, dirty, upstreamRef, originRemote, originRemote,
                1, "fetchFailed", <<"fetch origin", "fetch upstream">>)
    ELSE
      LET origin == originRemote
          up == upstreamRemote
          fetched == <<"fetch origin", "fetch upstream">>
          stop(exit, outcome) ==
              Effect(heads, head, dirty, up, originRemote, origin,
                     exit, outcome, fetched)
      IN
      IF base \in DOMAIN heads /\ Unpushed(heads[base], origin)
      THEN stop(1, "unpushed")
      ELSE IF OriginDiverged(origin, up) THEN stop(1, "blockedDiverged")
      ELSE IF iter_commits(origin, up) = {} THEN stop(0, "upToDate")
      ELSE IF net = "no push"
      THEN Effect(heads, head, dirty, up, originRemote, origin,
                  1, "pushFailed", Append(fetched, "push"))
      ELSE IF PushAccepted(originRemote, up)
      THEN Effect(heads, head, dirty, up, up, up, 0, "done",
                  Append(fetched, "push"))
      ELSE Effect(heads, head, dirty, up, originRemote, origin,
                  0, "pushRejected", Append(fetched, "push"))

ZeroFFSync ==
    /\ InMainTree
    /\ \E dry \in BOOLEAN :
       \E e \in { zero_ffsync(dry, net) : net \in Nets } :
         /\ Apply(e)
         /\ last' = Result("zero_ffsync", NoSlug, Flags(<<"dry_run">>, <<dry>>),
                           e.exit, e.outcome, e.ops)
    /\ UNCHANGED <<upstreamRemote, clock, worktrees, plainDirs, remoteFeat,
                   prs, cwd>>

----------------------------------------------------------------------------
(* Worktree management *)

\* Path.exists(): a registered worktree, a plain directory, or a directory
\* above one of them
Dirs == {RepoRoot} \cup DOMAIN worktrees \cup plainDirs

\* a path that is never found on disk
ExistsNever(path) == FALSE

Exists(path) == \E d \in Dirs : path = d \/ IsParent(path, d)

\* one "worktree <path>" line of git worktree list --porcelain per working tree
WorktreeWord == <<"w", "o", "r", "k", "t", "r", "e", "e">>
WorktreeLines == { WorktreeWord \o <<" ">> \o d : d \in {RepoRoot} \cup DOMAIN worktrees }

\* grep "^worktree.*{worktree_path}" on one line
GrepMatches(line, path) ==
    /\ IsPrefix(WorktreeWord, line)
    /\ IsSubstring(path, SubSeq(line, Len(WorktreeWord) + 1, Len(line)))

\* wt_new: "if wt_check.returncode == 0"; BashCommandLogger.execute returns
\* returncode 0 without running anything in dry-run mode
WtCheckOk(dry, path) ==
    dry \/ \E line \in WorktreeLines : GrepMatches(line, path)

\* the working trees a branch is checked out in
CheckedOut(wts, hd, branch) ==
    hd = branch \/ \E d \in DOMAIN wts : wts[d].branch = branch

\* git worktree add "{path}" "{branch}": refused for a branch that is
\* checked out in another working tree
CanAddWorktree(branch) == ~CheckedOut(worktrees, head, branch)

AddWorktree(wts, path, branch) ==
    [d \in DOMAIN wts \cup {path} |->
        IF d = path
        THEN [branch |-> branch, dirty |-> FALSE, stashed |-> FALSE,
              conflicted |-> FALSE]
        ELSE wts[d]]

\* a lookup that never finds the branch
InHeadsNever(h, branch_name) == FALSE

\* wt_new: "if branch_name in self.repo.heads"
InHeads(h, branch_name) == branch_name \in DOMAIN h

\* GitWorkflowManager.wt_new(slug, base): what it does after sync_main
\* returned, given the refs sync_main left
wt_new_worktree(slug, dry, synced) ==
    LET branch_name == BranchName(slug)
        worktree_path == GetWorktreePath(Root(cwd), slug)
        ops == synced.ops
        keep(exit, outcome, o) ==
            [synced EXCEPT !.exit = exit, !.outcome = outcome, !.ops = o]
                @@ [worktrees |-> worktrees]
    IN
    IF Exists(worktree_path)
    THEN IF WtCheckOk(dry, worktree_path)
         THEN keep(0, "exists", ops)
         ELSE keep(1, "conflictingPath", ops)
    ELSE IF ~Executes(dry) THEN keep(0, "done", ops)
    ELSE IF InHeads(synced.heads, branch_name)
    THEN IF CanAddWorktree(branch_name)
         THEN [synced EXCEPT !.exit = 0, !.outcome = "done",
                             !.ops = Append(ops, "worktree add")]
                @@ [worktrees |->
                      AddWorktree(worktrees, worktree_path, branch_name)]
         ELSE keep(1, "addFailed", Append(ops, "worktree add"))
    ELSE [synced EXCEPT !.exit = 0, !.outcome = "done",
                        !.ops = Append(ops, "worktree add -b"),
                        !.heads = create_head(synced.heads, branch_name,
                                              synced.heads[base])]
           @@ [worktrees |->
                 AddWorktree(worktrees, worktree_path, branch_name)]

\* a create that goes on whatever the sync did
SyncStoppedNever(synced) == FALSE

\* wt_new: "self.sync_main(base=base)"; sync_main ends a blocked or failed
\* sync with sys.exit(1), which ends wt_new with it
SyncStopped(synced) == synced.exit # 0

\* GitWorkflowManager.wt_new(slug, base)
wt_new(slug, dry, net) ==
    LET synced == sync_main(dry, net) IN
    IF SyncStopped(synced)
    THEN synced @@ [worktrees |-> worktrees]
    ELSE wt_new_worktree(slug, dry, synced)

WtNew ==
    /\ InMainTree
    /\ \E slug \in Slugs, dry \in BOOLEAN :
       \E e \in { wt_new(slug, dry, net) : net \in Nets } :
         /\ Apply(e)
         /\ worktrees' = e.worktrees
         /\ last' = Result("wt_new", slug, Flags(<<"dry_run">>, <<dry>>),
                           e.exit, e.outcome, e.ops)
    /\ UNCHANGED <<upstreamRemote, clock, plainDirs, remoteFeat, prs, cwd>>

\* wt_clean: "if current_dir == worktree_path or worktree_path in
\* current_dir.parents"
InsideWorktree(current_dir, worktree_path) ==
    current_dir = worktree_path \/ IsParent(worktree_path, current_dir)

\* wt_clean: git -C "{worktree_path}" status --porcelain prints something
HasUncommitted(dry, path) ==
    ~dry /\ path \in DOMAIN worktrees /\ worktrees[path].dirty

\* wt_clean: git ls-remote --exit-code --heads origin "{branch}" returns 0;
\* BashCommandLogger.execute returns returncode 0 in dry-run mode
HasRemoteBranch(dry, net, branch) ==
    dry \/ (net # "no fetch origin" /\ branch \in remoteFeat)

\* a review-request lookup that never finds one
HasPrNever(dry, gh, branch) == FALSE

\* wt_clean: gh pr list ... returns a non-empty list (gh: the gh CLI is
\* installed and the fork owner was detected)
HasPr(dry, gh, branch) == gh /\ ~dry /\ branch \in prs

RemoveWorktree(wts, path) == [d \in DOMAIN wts \ {path} |-> wts[d]]

\* git branch -d refuses a branch that is checked out or, without -D, not
\* merged
CanDeleteBranch(wts, h, branch, force_delete) ==
    /\ ~CheckedOut(wts, head, branch)
    /\ (force_delete \/ IsAncestor(h[branch], h[base]))

DeleteBranch(h, branch) == [n \in DOMAIN h \ {branch} |-> h[n]]

CleanEffect(wts, h, rf, exit, outcome, ops) ==
    [worktrees |-> wts, heads |-> h, remoteFeat |-> rf,
     exit |-> exit, outcome |-> outcome, ops |-> ops]

\* GitWorkflowManager.wt_clean: the "Perform cleanup" part
wt_clean_perform(branch_name, worktree_path, force_delete, dry, net, has_worktree, has_local_branch, has_remote_branch) ==
    IF ~Executes(dry)
    THEN CleanEffect(worktrees, heads, remoteFeat, 0, "done", <<>>)
    ELSE IF has_worktree /\ worktree_path \notin DOMAIN worktrees
    THEN CleanEffect(worktrees, heads, remoteFeat, 1, "removeFailed",
                     <<"worktree remove">>)
    ELSE
      LET wts == IF has_worktree
                 THEN RemoveWorktree(worktrees, worktree_path)
                 ELSE worktrees
          ops1 == IF has_worktree THEN <<"worktree remove">> ELSE <<>>
          h == IF has_local_branch
                  /\ CanDeleteBranch(wts, heads, branch_name, force_delete)
               THEN DeleteBranch(heads, branch_name)
               ELSE heads
          ops2 == IF has_local_branch THEN Append(ops1, "branch -d") ELSE ops1
          rf == IF has_remote_branch /\ net = "ok"
                THEN remoteFeat \ {branch_name}
                ELSE remoteFeat
          ops3 == IF has_remote_branch
                  THEN Append(ops2, "push --delete") ELSE ops2
      IN
      CleanEffect(wts, h, rf, 0, "done", Append(ops3, "prune"))

\* a confirmation gate that lets every clean through
NeedsConfirmNever(confirm, has_worktree, has_local_branch, has_remote_branch) == FALSE

\* wt_clean: "if not confirm and (has_worktree or has_local_branch or
\* has_remote_branch)"
NeedsConfirm(confirm, has_worktree, has_local_branch, has_remote_branch) ==
    ~confirm /\ (has_worktree \/ has_local_branch \/ has_remote_branch)

\* GitWorkflowManager.wt_clean(slug, force_delete, wt_force, dry_run_preview,
\* confirm)
wt_clean(slug, force_delete, wt_force, dry_run_preview, confirm, dry, gh, net) ==
    LET stop(exit, outcome) ==
            CleanEffect(worktrees, heads, remoteFeat, exit, outcome, <<>>)
    IN
    IF ~HasRepo(cwd) THEN stop(1, "notARepository")
    ELSE
      LET branch_name == BranchName(slug)
          worktree_path == GetWorktreePath(Root(cwd), slug)
          has_worktree == Exists(worktree_path)
          has_local_branch == branch_name \in DOMAIN heads
          has_uncommitted == has_worktree /\ HasUncommitted(dry, worktree_path)
          has_remote_branch == HasRemoteBranch(dry, net, branch_name)
          has_pr == HasPr(dry, gh, branch_name)
      IN
      IF Preview(dry_run_preview) THEN stop(0, "preview")
      ELSE IF has_uncommitted /\ ~wt_force THEN stop(1, "uncommitted")
      ELSE IF has_pr /\ ~confirm THEN stop(1, "openPr")
      ELSE IF InsideWorktree(cwd, worktree_path) THEN stop(1, "insideWorktree")
      ELSE IF NeedsConfirm(confirm, has_worktree, has_local_branch, has_remote_branch)
      THEN stop(1, "unconfirmed")
      ELSE wt_clean_perform(branch_name, worktree_path, force_delete, dry, net,
                            has_worktree, has_local_branch, has_remote_branch)

\* the values an input of wt_clean is invoked with: both where the code
\* reads it (--wt-force for a worktree with changes, --force-delete for an
\* unmerged branch, gh for a branch with a review request, the transport for
\* a branch on the fork), one where the command does the same for both
WtForceChoices ==
    IF \E d \in DOMAIN worktrees : worktrees[d].dirty THEN BOOLEAN ELSE {FALSE}

ForceDeleteChoices(slug) ==
    IF /\ BranchName(slug) \in DOMAIN heads
       /\ ~IsAncestor(heads[BranchName(slug)], heads[base])
    THEN BOOLEAN ELSE {FALSE}

GhChoices(slug) == IF BranchName(slug) \in prs THEN BOOLEAN ELSE {TRUE}

NetChoices(slug) ==
    IF BranchName(slug) \in remoteFeat
    THEN {"ok", "no fetch origin", "no push"} ELSE {"ok"}

WtClean ==
    /\ \E slug \in Slugs, dry_run_preview \in BOOLEAN, confirm \in BOOLEAN,
          dry \in BOOLEAN :
       \E force_delete \in ForceDeleteChoices(slug), wt_force \in WtForceChoices,
          gh \in GhChoices(slug), net \in NetChoices(slug) :
         LET e == wt_clean(slug, force_delete, wt_force, dry_run_preview,
                           confirm, dry, gh, net) IN
         /\ worktrees' = e.worktrees
         /\ heads' = e.heads
         /\ remoteFeat' = e.remoteFeat
         /\ last' = Result("wt_clean", slug,
                           Flags(<<"dry_run_preview", "confirm", "dry_run", "gh">>,
                                 <<dry_run_preview, confirm, dry, gh>>),
                           e.exit, e.outcome, e.ops)
    /\ UNCHANGED <<head, dirty, upstreamRemote, originRemote, upstreamRef,
                   originRef, clock, plainDirs, prs, cwd>>

----------------------------------------------------------------------------
(* The user and the other actors *)

\* the upstream project gains a commit
UpstreamAdvance ==
    /\ Len(upstreamRemote) < MaxLen
    /\ upstreamRemote' = Append(upstreamRemote, 1)
    /\ last' = NoCmd
    /\ UNCHANGED <<heads, head, dirty, originRemote, upstreamRef, originRef,
                   clock, worktrees, plainDirs, remoteFeat, prs, cwd>>

\* the user commits on the local base branch
LocalCommit ==
    /\ head = base
    /\ Len(heads[base]) < MaxLen
    /\ heads' = [heads EXCEPT ![base] = Append(@, 2)]
    /\ last' = NoCmd
    /\ UNCHANGED <<head, dirty, upstreamRemote, originRemote, upstreamRef,
                   originRef, clock, worktrees, plainDirs, remoteFeat, prs, cwd>>

\* another actor pushes a commit to the base branch of the fork
OtherPush ==
    /\ Len(originRemote) < MaxLen
    /\ originRemote' = Append(originRemote, 2)
    /\ last' = NoCmd
    /\ UNCHANGED <<heads, head, dirty, upstreamRemote, upstreamRef, originRef,
                   clock, worktrees, plainDirs, remoteFeat, prs, cwd>>

\* the user edits, adds or cleans files in the main working tree
Edit ==
    /\ \E d \in {"clean", "untracked", "modified"} : d # dirty /\ dirty' = d
    /\ last' = NoCmd
    /\ UNCHANGED <<heads, head, upstreamRemote, originRemote, upstreamRef,
                   originRef, clock, worktrees, plainDirs, remoteFeat, prs, cwd>>

\* the user switches the main working tree to the base branch or detaches it
Switch ==
    /\ \E b \in {base, Detached} : b # head /\ head' = b
    /\ last' = NoCmd
    /\ UNCHANGED <<heads, dirty, upstreamRemote, originRemote, upstreamRef,
                   originRef, clock, worktrees, plainDirs, remoteFeat, prs, cwd>>

\* a second passes
Tick ==
    /\ clock < MaxClock
    /\ clock' = clock + 1
    /\ last' = NoCmd
    /\ UNCHANGED repoVars
    /\ UNCHANGED cwd

\* the user creates a directory where a worktree would go
Mkdir ==
    /\ \E slug \in Slugs :
         LET path == GetWorktreePath(RepoRoot, slug) IN
         /\ ~Exists(path)
         /\ plainDirs' = plainDirs \cup {path}
    /\ last' = NoCmd
    /\ UNCHANGED <<heads, head, dirty, upstreamRemote, originRemote,
                   upstreamRef, originRef, clock, worktrees, remoteFeat, prs,
                   cwd>>

\* a directory inside a working tree
SubDir == <<"s">>

\* the user changes the working directory: to the main working tree, a
\* worktree, a directory inside a worktree, or a plain directory
Chdir ==
    /\ \E d \in Dirs \cup { Join(w, SubDir) : w \in DOMAIN worktrees } :
         d # cwd /\ cwd' = d
    /\ last' = NoCmd
    /\ UNCHANGED repoVars
    /\ UNCHANGED clock

\* the user edits files in a worktree, or commits or discards the edits
WorktreeEdit ==
    /\ \E d \in DOMAIN worktrees :
         worktrees' = [worktrees EXCEPT ![d].dirty = ~@]
    /\ last' = NoCmd
    /\ UNCHANGED <<heads, head, dirty, upstreamRemote, originRemote,
                   upstreamRef, originRef, clock, plainDirs, remoteFeat, prs,
                   cwd>>

\* the user detaches HEAD inside a worktree
WorktreeDetach ==
    /\ \E d \in DOMAIN worktrees :
         /\ worktrees[d].branch # Detached
         /\ worktrees' = [worktrees EXCEPT ![d].branch = Detached]
    /\ last' = NoCmd
    /\ UNCHANGED <<heads, head, dirty, upstreamRemote, originRemote,
                   upstreamRef, originRef, clock, plainDirs, remoteFeat, prs,
                   cwd>>

\* the user pushes a feature branch to the fork
PushFeature ==
    /\ \E slug \in Slugs :
         /\ BranchName(slug) \in DOMAIN heads
         /\ BranchName(slug) \notin remoteFeat
         /\ remoteFeat' = remoteFeat \cup {BranchName(slug)}
    /\ last' = NoCmd
    /\ UNCHANGED <<heads, head, dirty, upstreamRemote, originRemote,
                   upstreamRef, originRef, clock, worktrees, plainDirs, prs,
                   cwd>>

\* the user opens a review request for a pushed feature branch
OpenPr ==
    /\ \E b \in remoteFeat \ prs : prs' = prs \cup {b}
    /\ last' = NoCmd
    /\ UNCHANGED <<heads, head, dirty, upstreamRemote, originRemote,
                   upstreamRef, originRef, clock, worktrees, plainDirs,
                   remoteFeat, cwd>>

----------------------------------------------------------------------------
(* The sync engine *)

Init ==
    /\ heads = [b \in {base} |-> <<>>]
    /\ head = base
    /\ dirty = "clean"
    /\ upstreamRemote = <<>>
    /\ originRemote = <<>>
    /\ upstreamRef = <<>>
    /\ originRef = <<>>
    /\ clock = 0
    /\ worktrees = [p \in {} |-> 0]
    /\ plainDirs = {}
    /\ remoteFeat = {}
    /\ prs = {}
    /\ cwd = RepoRoot
    /\ last = NoCmd

\* the two fast-forward syncs, among the user's commits and edits and the
\* pushes of others
Next ==
    \/ SyncMain
    \/ ZeroFFSync
    \/ UpstreamAdvance
    \/ LocalCommit
    \/ OtherPush
    \/ Edit
    \/ Switch

Spec == Init /\ [][Next]_vars

\* the force sync, among the same and the passing of time
NextForce ==
    \/ SyncMainForce
    \/ UpstreamAdvance
    \/ LocalCommit
    \/ OtherPush
    \/ Edit
    \/ Switch
    \/ Tick

SpecForce == Init /\ [][NextForce]_vars

----------------------------------------------------------------------------
(* Properties of the sync engine *)

\* the invocation recorded in r made the call named op
Did(r, op) == \E i \in DOMAIN r.ops : r.ops[i] = op

\* the invocation recorded in r made the call a before any call b
DidBefore(r, a, b) ==
    \E i \in DOMAIN r.ops :
        /\ r.ops[i] = a
        /\ \A j \in DOMAIN r.ops : r.ops[j] = b => i < j

RealRun(r) == "dry_run" \notin r.flags

\* C1: a sync_main that finds the local base tip not an ancestor of the
\* upstream/base tip it compares against leaves the local base ref where it
\* was and performs no reset; so does every sync_main that ends blockedDiverged.
C1_DivergedSyncKeepsBase ==
    [][ (/\ last'.cmd = "sync_main"
         /\ \/ ~IsAncestor(heads[base], upstreamRef')
            \/ last'.outcome = "blockedDiverged")
        => (heads'[base] = heads[base] /\ ~Did(last', "reset")) ]_vars

\* the base branch has diverged from the fetched upstream tip and the sync
\* stopped as blockedDiverged
C1_Witness ==
    /\ last.cmd = "sync_main"
    /\ last.outcome = "blockedDiverged"
    /\ ~IsAncestor(heads[base], upstreamRef)
    /\ ~IsAncestor(upstreamRef, heads[base])

\* C2: a sync_main that has fetched and finds the local base tip neither an
\* ancestor of upstream/base nor equal to it (also when local is strictly
\* ahead) ends blockedDiverged with a non-zero exit and without a push.
C2_NotAncestorAlwaysBlocked ==
    [][ (/\ last'.cmd = "sync_main"
         /\ RealRun(last')
         /\ ~IsAncestor(heads[base], upstreamRef'))
        => (/\ last'.exit # 0
            /\ last'.outcome \in {"blockedDiverged", "uncommitted", "fetchFailed"}
            /\ ~Did(last', "push")) ]_vars

\* C3: every sync_main_force that gets past the confirmation and
\* uncommitted-changes gates creates exactly one branch, a backup branch that
\* did not exist, at the tip the base branch had, before it resets.
C3_ForceSyncAlwaysBacksUp ==
    [][ (/\ last'.cmd = "sync_main_force"
         /\ RealRun(last')
         /\ "confirm" \in last'.flags
         /\ last'.outcome # "uncommitted")
        => (/\ \E b \in DOMAIN heads' \ DOMAIN heads :
                  /\ IsBackup(b)
                  /\ DOMAIN heads' = DOMAIN heads \cup {b}
                  /\ heads'[b] = heads[base]
            /\ DidBefore(last', "branch", "reset")) ]_vars

\* C4: sync_main_force without --confirm exits non-zero, makes no call that
\* mutates (no switch, branch, fetch, reset, push) and leaves every ref, the
\* checked-out branch and the working tree as they were.
C4_UnconfirmedForceSyncDoesNothing ==
    [][ (last'.cmd = "sync_main_force" /\ "confirm" \notin last'.flags)
        => (/\ last'.exit # 0
            /\ last'.ops = <<>>
            /\ UNCHANGED repoVars) ]_vars

\* an unconfirmed force sync was refused while the base branch held commits
\* that the reset would have discarded and the working tree was not on base
C4_Witness ==
    /\ last.cmd = "sync_main_force"
    /\ "confirm" \notin last.flags
    /\ last.exit = 1
    /\ iter_commits(upstreamRemote, heads[base]) # {}
    /\ head # base

\* C5: the push of sync_main_force does not overwrite a fork base branch that
\* another actor moved after the tool last observed it (origin/base).
C5_ForcePushIsConditional ==
    [][ (/\ last'.cmd = "sync_main_force"
         /\ Did(last', "push --force")
         /\ originRemote # originRef)
        => originRemote' = originRemote ]_vars

----------------------------------------------------------------------------
(* Creating worktrees *)

NextCreate ==
    \/ WtNew
    \/ UpstreamAdvance
    \/ LocalCommit
    \/ Edit
    \/ Mkdir
    \/ WorktreeDetach

SpecCreate == Init /\ [][NextCreate]_vars

\* the path of the worktree of the invocation recorded in r, as derived from
\* the main working tree
TargetPath(r) == GetWorktreePath(RepoRoot, r.slug)

\* C8: when a wt_new that succeeded is followed directly by a wt_new with the
\* same slug and the same flags whose fetch is not cut off, the second one
\* succeeds too, issues no worktree add, and leaves the worktrees and the
\* branches exactly as the first one left them.
C8_WtNewTwiceIsIdempotent ==
    [][ (/\ last.cmd = "wt_new" /\ last.exit = 0
         /\ last'.cmd = "wt_new"
         /\ last'.slug = last.slug
         /\ last'.flags = last.flags
         /\ last'.outcome # "fetchFailed")
        => (/\ last'.exit = 0
            /\ ~Did(last', "worktree add")
            /\ ~Did(last', "worktree add -b")
            /\ worktrees' = worktrees
            /\ heads' = heads) ]_vars

\* a wt_new found the worktree that an earlier wt_new registered for the
\* branch of the slug, and reported success
C8_Witness ==
    /\ last.cmd = "wt_new"
    /\ RealRun(last)
    /\ last.outcome = "exists"
    /\ last.exit = 0
    /\ TargetPath(last) \in DOMAIN worktrees
    /\ worktrees[TargetPath(last)].branch = BranchName(last.slug)
    /\ DOMAIN heads = {base, BranchName(last.slug)}

\* C9: a wt_new that finds its derived path existing succeeds only if exactly
\* that path is a registered worktree; if the path exists without being a
\* registered worktree (a plain directory, also one whose path is a prefix of
\* a registered worktree's path) it exits non-zero.
C9_ExistingPathMustBeTheWorktree ==
    (/\ last.cmd = "wt_new"
     /\ RealRun(last)
     /\ Exists(TargetPath(last))
     /\ TargetPath(last) \notin DOMAIN worktrees)
    => last.exit # 0

----------------------------------------------------------------------------
(* Cleaning worktrees *)

\* clean invoked from the main working tree, among worktrees with edits,
\* pushed branches, review requests and stray directories
NextClean ==
    \/ WtNew
    \/ WtClean
    \/ Mkdir
    \/ WorktreeEdit
    \/ PushFeature
    \/ OpenPr

SpecClean == Init /\ [][NextClean]_vars

\* clean invoked from wherever the user has changed directory to
NextCleanFrom ==
    \/ WtNew
    \/ WtClean
    \/ Chdir
    \/ PushFeature

SpecCleanFrom == Init /\ [][NextCleanFrom]_vars

\* C10: a wt_clean invoked with the working directory at the worktree of its
\* slug, or below it, exits non-zero and attempts no removal, no branch
\* deletion and no prune.
C10_CleanRefusesInsideWorktree ==
    (/\ last.cmd = "wt_clean"
     /\ RealRun(last)
     /\ "dry_run_preview" \notin last.flags
     /\ TargetPath(last) \in DOMAIN worktrees
     /\ InsideWorktree(cwd, TargetPath(last)))
    => (last.exit # 0 /\ last.ops = <<>>)

\* C11 as stated: a wt_clean without --confirm on a feature whose branch has
\* an open review request exits with code 1 and attempts no deletion.
C11_OpenPrAlwaysBlocksClean ==
    (/\ last.cmd = "wt_clean"
     /\ "confirm" \notin last.flags
     /\ BranchName(last.slug) \in prs)
    => (last.exit = 1 /\ last.ops = <<>>)

\* C11: a wt_clean without --confirm and without --dry-run-preview, on a
\* feature whose branch has an open review request that gh can report, exits
\* with code 1 and attempts no deletion.
C11_DetectedOpenPrBlocksClean ==
    (/\ last.cmd = "wt_clean"
     /\ "confirm" \notin last.flags
     /\ "dry_run_preview" \notin last.flags
     /\ "gh" \in last.flags
     /\ BranchName(last.slug) \in prs)
    => (last.exit = 1 /\ last.ops = <<>>)

\* a clean was refused because of the open review request, with the worktree
\* and both branches still there
C11_Witness ==
    /\ last.cmd = "wt_clean"
    /\ last.outcome = "openPr"
    /\ last.exit = 1
    /\ "confirm" \notin last.flags
    /\ BranchName(last.slug) \in prs
    /\ BranchName(last.slug) \in remoteFeat
    /\ BranchName(last.slug) \in DOMAIN heads
    /\ TargetPath(last) \in DOMAIN worktrees

\* C12: a wt_clean that has started its cleanup attempts every step that
\* applies, whatever became of the steps before it: once the worktree removal
\* is attempted, the deletion of the local branch (if there is one) and the
\* prune are attempted too.
C12_CleanStepsAreIndependent ==
    [][ (last'.cmd = "wt_clean" /\ Did(last', "worktree remove"))
        => (/\ Did(last', "prune")
            /\ BranchName(last'.slug) \in DOMAIN heads
                  => Did(last', "branch -d")) ]_vars

----------------------------------------------------------------------------
(* Updating worktrees *)

\* git rev-list --count "a..b"
rev_list_count(a, b) == Cardinality(iter_commits(a, b))

\* git rebase "upstream/{base}": the commits of tip that up lacks, replayed
\* on up
Rebased(tip, up) == up \o SubSeq(tip, CommonLen(tip, up, 0) + 1, Len(tip))

\* the commit a merge makes
MergeCommit == 4

\* git merge "upstream/{base}": a fast-forward when tip has nothing of its
\* own, a merge commit otherwise; the chain lists what the tip reaches
Merged(tip, up) ==
    IF rev_list_count(up, tip) = 0 THEN up
    ELSE Append(Rebased(tip, up), MergeCommit)

\* wt_update: "if not self.dry_run and result.returncode != 0"
UpdateFailedNever(dry, returncode) == FALSE

UpdateFailed(dry, returncode) == ~dry /\ returncode # 0

\* wt_update: "if not no_backup and commits_ahead > 0"
WantsBackup(no_backup, commits_ahead) == ~no_backup /\ commits_ahead > 0

\* the calls to remotes that can fail during one wt_update
UpdateNets == {"ok", "no fetch upstream", "no push"}

UpdateEffect(wts, h, ur, rf, exit, outcome, ops, backup) ==
    [worktrees |-> wts, heads |-> h, upstreamRef |-> ur, remoteFeat |-> rf,
     exit |-> exit, outcome |-> outcome, ops |-> ops, backup |-> backup]

\* no backup branch name to report
NoBackup == <<>>

push_cmd_force(merge) == "push --force"

\* wt_update: the push after a merge, and the push after a rebase
push_cmd(merge) == IF merge THEN "push" ELSE "push --force-with-lease"

\* GitWorkflowManager.wt_update from "Check for uncommitted changes" on.
\* returncode: what the rebase or merge returns
wt_update_rewrite(branch_name, path, up, stash, merge, no_backup, net, returncode, commits_ahead) ==
    LET wt == worktrees[path]
        tip == heads[branch_name]
        has_uncommitted == wt.dirty
        stashed == has_uncommitted /\ stash
        ops1 == <<"fetch upstream">>
        ops2 == IF stashed THEN Append(ops1, "stash push") ELSE ops1
        backup_branch == IF WantsBackup(no_backup, commits_ahead)
                         THEN BackupName(branch_name, clock) ELSE NoBackup
        h1 == IF backup_branch # NoBackup /\ CanCreateHead(heads, backup_branch)
              THEN create_head(heads, backup_branch, tip) ELSE heads
        ops3 == IF backup_branch # NoBackup THEN Append(ops2, "branch") ELSE ops2
        ops4 == Append(ops3, IF merge THEN "merge" ELSE "rebase")
        stopped == commits_ahead > 0 /\ returncode # 0
        wt4 == IF stopped
               THEN [wt EXCEPT !.dirty = TRUE, !.stashed = @ \/ stashed,
                               !.conflicted = TRUE]
               ELSE [wt EXCEPT !.dirty = FALSE, !.stashed = @ \/ stashed]
        h4 == IF stopped THEN h1
              ELSE [h1 EXCEPT ![branch_name] =
                      IF merge THEN Merged(tip, up) ELSE Rebased(tip, up)]
        ops5 == Append(ops4, push_cmd(merge))
        pushed == net # "no push"
        rf5 == IF pushed THEN remoteFeat \cup {branch_name} ELSE remoteFeat
        wt6 == [wt4 EXCEPT !.dirty = TRUE, !.stashed = wt.stashed]
        ops6 == Append(ops5, "stash pop")
        with(w) == [worktrees EXCEPT ![path] = w]
    IN
    IF has_uncommitted /\ ~stash
    THEN UpdateEffect(worktrees, heads, up, remoteFeat, 1, "uncommitted",
                      ops1, NoBackup)
    ELSE IF UpdateFailed(FALSE, IF stopped THEN 1 ELSE 0)
    THEN UpdateEffect(with(wt4), h4, up, remoteFeat, 1, "conflicted", ops4,
                      backup_branch)
    ELSE IF ~pushed
    THEN UpdateEffect(with(wt4), h4, up, rf5, 1, "pushFailed", ops5,
                      backup_branch)
    ELSE IF stashed
    THEN UpdateEffect(with(wt6), h4, up, rf5, 0, "done", ops6, backup_branch)
    ELSE UpdateEffect(with(wt4), h4, up, rf5, 0, "done", ops5, backup_branch)

\* GitWorkflowManager.wt_update(slug, base, stash, dry_run_preview, merge,
\* no_backup)
wt_update(slug, stash, dry_run_preview, merge, no_backup, dry, net, returncode) ==
    LET branch_name == BranchName(slug)
        worktree_path == GetWorktreePath(Root(cwd), slug)
        stop(ur, exit, outcome, ops) ==
            UpdateEffect(worktrees, heads, ur, remoteFeat, exit, outcome, ops,
                         NoBackup)
    IN
    IF head # branch_name /\ ~Exists(worktree_path)
    THEN stop(upstreamRef, 1, "noWorktree", <<>>)
    ELSE IF ~Executes(dry) THEN stop(upstreamRef, 0, "upToDate", <<>>)
    ELSE IF net = "no fetch upstream"
    THEN stop(upstreamRef, 1, "fetchFailed", <<"fetch upstream">>)
    ELSE
      LET up == upstreamRemote
          registered == worktree_path \in DOMAIN worktrees
          commits_behind == IF registered
                            THEN rev_list_count(heads[branch_name], up) ELSE 0
          commits_ahead == IF registered
                           THEN rev_list_count(up, heads[branch_name]) ELSE 0
      IN
      IF commits_behind = 0
      THEN stop(up, 0, "upToDate", <<"fetch upstream">>)
      ELSE IF Preview(dry_run_preview)
      THEN stop(up, 0, "preview", <<"fetch upstream">>)
      ELSE wt_update_rewrite(branch_name, worktree_path, up, stash, merge,
                             no_backup, net, returncode, commits_ahead)

\* wt_update reads --stash, --dry-run-preview, --merge and --no-backup only
\* once it has found the feature branch behind upstream
ReadsUpdateFlags(slug, dry) ==
    /\ ~dry
    /\ GetWorktreePath(Root(cwd), slug) \in DOMAIN worktrees
    /\ rev_list_count(heads[BranchName(slug)], upstreamRemote) > 0

\* the values a flag of wt_update is invoked with: both where the code reads
\* it, one where the command does the same for both
UpdateFlagChoices(slug, dry) ==
    IF ReadsUpdateFlags(slug, dry) THEN BOOLEAN ELSE {FALSE}

StashChoices(slug, dry) ==
    IF /\ ReadsUpdateFlags(slug, dry)
       /\ worktrees[GetWorktreePath(Root(cwd), slug)].dirty
    THEN BOOLEAN ELSE {FALSE}

\* wt_update is followed from the main working tree, for worktrees that are
\* on their branch with no rebase or merge in progress
WtUpdate ==
    /\ InMainTree
    /\ \A d \in DOMAIN worktrees :
          worktrees[d].branch # Detached /\ ~worktrees[d].conflicted
    /\ \E slug \in Slugs, dry \in BOOLEAN :
       \E stash \in StashChoices(slug, dry),
          dry_run_preview \in UpdateFlagChoices(slug, dry),
          merge \in UpdateFlagChoices(slug, dry),
          no_backup \in UpdateFlagChoices(slug, dry) :
       \E e \in { wt_update(slug, stash, dry_run_preview, merge, no_backup,
                            dry, net, returncode) :
                      net \in UpdateNets, returncode \in {0, 1} } :
         /\ worktrees' = e.worktrees
         /\ heads' = e.heads
         /\ upstreamRef' = e.upstreamRef
         /\ remoteFeat' = e.remoteFeat
         /\ last' = Result("wt_update", slug,
                           Flags(<<"stash", "dry_run_preview", "merge",
                                   "no_backup", "dry_run">>,
                                 <<stash, dry_run_preview, merge, no_backup,
                                   dry>>),
                           e.exit, e.outcome, e.ops) @@ [backup |-> e.backup]
    /\ UNCHANGED <<head, dirty, upstreamRemote, originRemote, originRef, clock,
                   plainDirs, prs, cwd>>

\* the commit the user makes on a feature branch
FeatureCommitLabel == 3

\* the commits of a chain that were made on a feature branch
OwnCommits(c) == Cardinality({ i \in DOMAIN c : c[i] = FeatureCommitLabel })

\* the user commits in a worktree, on its feature branch
FeatureCommit ==
    /\ \E d \in DOMAIN worktrees :
         LET b == worktrees[d].branch IN
         /\ b # Detached
         /\ ~worktrees[d].conflicted
         /\ OwnCommits(heads[b]) < MaxLen
         /\ heads' = [heads EXCEPT ![b] = Append(@, FeatureCommitLabel)]
    /\ last' = NoCmd
    /\ UNCHANGED <<head, dirty, upstreamRemote, originRemote, upstreamRef,
                   originRef, clock, worktrees, plainDirs, remoteFeat, prs, cwd>>

\* the user gives up a stopped rebase or merge (git rebase --abort)
AbortRewrite ==
    /\ \E d \in DOMAIN worktrees :
         /\ worktrees[d].conflicted
         /\ worktrees' = [worktrees EXCEPT ![d].conflicted = FALSE,
                                           ![d].dirty = FALSE]
    /\ last' = NoCmd
    /\ UNCHANGED <<heads, head, dirty, upstreamRemote, originRemote,
                   upstreamRef, originRef, clock, plainDirs, remoteFeat, prs,
                   cwd>>

\* the repository once wt_new has created the worktree of the first slug
UpdatedSlug == <<"a">>

InitUpdate ==
    /\ heads = create_head([b \in {base} |-> <<>>], BranchName(UpdatedSlug), <<>>)
    /\ head = base
    /\ dirty = "clean"
    /\ upstreamRemote = <<>>
    /\ originRemote = <<>>
    /\ upstreamRef = <<>>
    /\ originRef = <<>>
    /\ clock = 0
    /\ worktrees = AddWorktree([p \in {} |-> 0],
                               GetWorktreePath(RepoRoot, UpdatedSlug),
                               BranchName(UpdatedSlug))
    /\ plainDirs = {}
    /\ remoteFeat = {}
    /\ prs = {}
    /\ cwd = RepoRoot
    /\ last = NoCmd

\* update, among the user's commits and edits in the worktree, the commits
\* of upstream and the passing of time
NextUpdate ==
    \/ WtUpdate
    \/ FeatureCommit
    \/ AbortRewrite
    \/ UpstreamAdvance
    \/ WorktreeEdit
    \/ Tick

SpecUpdate == InitUpdate /\ [][NextUpdate]_vars

\* a rebase or merge of this step stopped with conflicts in the worktree of
\* the slug
StoppedInConflict ==
    /\ last'.cmd = "wt_update"
    /\ TargetPath(last') \in DOMAIN worktrees
    /\ ~worktrees[TargetPath(last')].conflicted
    /\ worktrees'[TargetPath(last')].conflicted

\* C13: a wt_update that starts a rebase without --no-backup has, earlier in
\* the same invocation, created a backup branch at the tip the feature branch
\* had, whatever the number of commits ahead.
C13_RebaseAlwaysBackedUp ==
    [][ (/\ last'.cmd = "wt_update"
         /\ Did(last', "rebase")
         /\ "no_backup" \notin last'.flags)
        => (/\ DidBefore(last', "branch", "rebase")
            /\ \E b \in DOMAIN heads' \ DOMAIN heads :
                  /\ IsBackup(b)
                  /\ heads'[b] = heads[BranchName(last'.slug)]) ]_vars

\* C14: a wt_update whose rebase or merge stops with conflicts exits with
\* code 1 in the conflicted state: no abort, no push and no stash pop is
\* issued, the feature branch is where it was, and the name of the backup
\* branch it created, if any, is reported.
C14_ConflictStopsTheUpdate ==
    [][ StoppedInConflict
        => (/\ last'.exit = 1
            /\ last'.outcome = "conflicted"
            /\ ~Did(last', "rebase --abort") /\ ~Did(last', "merge --abort")
            /\ ~Did(last', "push") /\ ~Did(last', "push --force-with-lease")
            /\ ~Did(last', "stash pop")
            /\ heads'[BranchName(last'.slug)] = heads[BranchName(last'.slug)]
            /\ \A b \in DOMAIN heads' \ DOMAIN heads : last'.backup = b) ]_vars

\* an update that had stashed changes and created a backup branch stopped
\* with conflicts
C14_Witness ==
    /\ last.cmd = "wt_update"
    /\ last.outcome = "conflicted"
    /\ last.exit = 1
    /\ Did(last, "stash push")
    /\ Did(last, "branch")
    /\ last.backup \in DOMAIN heads
    /\ worktrees[TargetPath(last)].conflicted
    /\ worktrees[TargetPath(last)].stashed

\* C15: a wt_update that stashed changes and did not stop with unresolved
\* conflicts restores the stash before it ends, also when its push failed.
C15_StashAlwaysRestored ==
    [][ (/\ last'.cmd = "wt_update"
         /\ Did(last', "stash push")
         /\ ~worktrees'[TargetPath(last')].conflicted)
        => (/\ Did(last', "stash pop")
            /\ worktrees'[TargetPath(last')].stashed
                  = worktrees[TargetPath(last')].stashed) ]_vars

----------------------------------------------------------------------------
(* SafetyValidator *)

\* longest feature slug given on the command line
MaxSlugLen == 3
\* most pieces a branch name given to the validator is made of
MaxNamePieces == 3

\* str.isspace(), which is also what \s matches in a str pattern
Whitespace == {" ", "\t"}

\* str.lstrip() and str.rstrip()
RECURSIVE lstrip(_)
lstrip(s) ==
    IF s # <<>> /\ s[1] \in Whitespace THEN lstrip(Tail(s)) ELSE s

RECURSIVE rstrip(_)
rstrip(s) ==
    IF s # <<>> /\ s[Len(s)] \in Whitespace
    THEN rstrip(SubSeq(s, 1, Len(s) - 1)) ELSE s

StripNothing(s) == s

strip(s) == rstrip(lstrip(s))

\* re.search(r'[...]', s) for a character class
Search(class, s) == \E i \in DOMAIN s : s[i] \in class

\* the class [~^:?*\[\]\\] of validate_slug
SlugInvalidChars == {"~", "^", ":", "?", "*", "[", "]", "\\"}

\* the class [\s~^:?*\[] of validate_branch_name
invalid_chars == Whitespace \cup {"~", "^", ":", "?", "*", "["}

Valid(value) == [ok |-> TRUE, value |-> value, error |-> "none"]
ValueError(value, error) == [ok |-> FALSE, value |-> value, error |-> error]

\* SafetyValidator.validate_slug: the cleaned slug, or the ValueError raised
validate_slug(raw) ==
    IF raw = <<>> THEN ValueError(raw, "SLUG is required")
    ELSE LET slug == strip(raw) IN
         IF Search(Whitespace, slug)
         THEN ValueError(slug, "contains whitespace")
         ELSE IF Search(SlugInvalidChars, slug)
         THEN ValueError(slug, "contains invalid characters")
         ELSE Valid(slug)

EndsWith(s, t) == Len(t) <= Len(s) /\ SubSeq(s, Len(s) - Len(t) + 1, Len(s)) = t

DotDot == <<".", ".">>
DotLock == <<".", "l", "o", "c", "k">>
AtBrace == <<"@", "{">>
HeadName == <<"H", "E", "A", "D">>

\* SafetyValidator.validate_branch_name: None, or the ValueError raised
validate_branch_name(branch) ==
    IF Search(invalid_chars, branch)
    THEN ValueError(branch, "contains invalid characters")
    ELSE IF IsSubstring(DotDot, branch)
    THEN ValueError(branch, "two consecutive dots")
    ELSE IF IsPrefix(<<"/">>, branch) \/ EndsWith(branch, <<"/">>)
    THEN ValueError(branch, "start or end with slash")
    ELSE IF EndsWith(branch, DotLock)
    THEN ValueError(branch, "end with .lock")
    ELSE IF IsSubstring(AtBrace, branch)
    THEN ValueError(branch, "contains @{")
    ELSE IF branch = <<>> \/ branch = HeadName
    THEN ValueError(branch, "invalid branch name")
    ELSE Valid(branch)

\* the characters the slugs of the command line are written with
SlugAlphabet == {"a"} \cup Whitespace \cup SlugInvalidChars

RawSlugs == UNION { [1 .. n -> SlugAlphabet] : n \in 0 .. MaxSlugLen }

\* the character U+0007, written by its name
Bell == "BEL"

\* the pieces the branch names handed to the validator are made of
NamePieces ==
    { <<"a">>, <<".">>, <<"/">>, DotLock, <<"@">>, <<"{">>, HeadName,
      <<Bell>>, <<"\t">>, <<"~">> }

RECURSIVE Concat(_)
Concat(ps) == IF ps = <<>> THEN <<>> ELSE Head(ps) \o Concat(Tail(ps))

RawNames ==
    { Concat(ps) : ps \in UNION { [1 .. n -> NamePieces] : n \in 0 .. MaxNamePieces } }

\* an argument a function is about to be applied to
Argument(fn, raw) == Result(fn, raw, {}, 0, "argument", <<>>)

\* slug = validate_slug(slug); branch_name = f"feat/{slug}";
\* worktree_path = self._get_worktree_path(slug): the first lines of wt_publish,
\* wt_pr, wt_update, wt_clean and wt_status.  An uncaught ValueError ends the
\* process with exit code 1 before anything is derived.
ValidateSlug ==
    /\ last.cmd = "validate_slug"
    /\ last.outcome = "argument"
    /\ LET r == validate_slug(last.slug) IN
       last' = IF r.ok
               THEN Result("validate_slug", last.slug, {}, 0, "returned", <<>>)
                    @@ [value |-> r.value, error |-> r.error,
                        branch_name |-> BranchName(r.value),
                        worktree_path |-> GetWorktreePath(RepoRoot, r.value)]
               ELSE Result("validate_slug", last.slug, {}, 1, "ValueError", <<>>)
                    @@ [value |-> r.value, error |-> r.error,
                        branch_name |-> <<>>, worktree_path |-> <<>>]
    /\ UNCHANGED <<repoVars, clock, cwd>>

\* validate_branch_name(branch)
ValidateBranchName ==
    /\ last.cmd = "validate_branch_name"
    /\ last.outcome = "argument"
    /\ LET r == validate_branch_name(last.slug) IN
       last' = Result("validate_branch_name", last.slug, {},
                      IF r.ok THEN 0 ELSE 1,
                      IF r.ok THEN "returned" ELSE "ValueError", <<>>)
               @@ [value |-> r.value, error |-> r.error]
    /\ UNCHANGED <<repoVars, clock, cwd>>

InitValidate ==
    /\ heads = [b \in {base} |-> <<>>]
    /\ head = base
    /\ dirty = "clean"
    /\ upstreamRemote = <<>>
    /\ originRemote = <<>>
    /\ upstreamRef = <<>>
    /\ originRef = <<>>
    /\ clock = 0
    /\ worktrees = <<>>
    /\ plainDirs = {}
    /\ remoteFeat = {}
    /\ prs = {}
    /\ cwd = RepoRoot
    /\ last \in { Argument("validate_slug", raw) : raw \in RawSlugs }
                \cup { Argument("validate_branch_name", raw) : raw \in RawNames }

NextValidate ==
    \/ ValidateSlug
    \/ ValidateBranchName

SpecValidate == InitValidate /\ [][NextValidate]_vars

Applied(fn) == last.cmd = fn /\ last.outcome # "argument"

IsBlank(s) == \A i \in DOMAIN s : s[i] \in Whitespace

\* t is raw without its leading and trailing whitespace
IsTrimOf(t, raw) ==
    /\ t = <<>> \/ (t[1] \notin Whitespace /\ t[Len(t)] \notin Whitespace)
    /\ \E i \in 0 .. Len(raw) :
          /\ i + Len(t) <= Len(raw)
          /\ SubSeq(raw, i + 1, i + Len(t)) = t
          /\ IsBlank(SubSeq(raw, 1, i))
          /\ IsBlank(SubSeq(raw, i + Len(t) + 1, Len(raw)))

\* C16 as stated: validate_slug raises for every input that contains a
\* whitespace character or one of ~ ^ : ? * [ ] \, and for every other
\* non-empty input it returns the input, from which feat/{slug} is derived.
C16_AnyWhitespaceRejected ==
    Applied("validate_slug")
    => IF Search(Whitespace \cup SlugInvalidChars, last.slug)
       THEN last.outcome = "ValueError"
       ELSE last.slug # <<>>
            => (/\ last.outcome = "returned"
                /\ last.value = last.slug
                /\ last.branch_name = FEATURE_BRANCH_PREFIX \o last.slug)

\* C16: validate_slug raises for every input that, with its leading and
\* trailing whitespace removed, contains a whitespace character or one of
\* ~ ^ : ? * [ ] \ (the whitespace error for the first, the invalid-character
\* error otherwise); for every other input whose trimmed form is not empty
\* it returns the trimmed form, and the branch name derived is feat/{slug}.
C16_TrimmedSlugDecides ==
    Applied("validate_slug")
    => \A t \in { SubSeq(last.slug, i + 1, j) : i, j \in 0 .. Len(last.slug) } :
          IsTrimOf(t, last.slug)
          => IF Search(Whitespace, t)
             THEN last.outcome = "ValueError" /\ last.error = "contains whitespace"
             ELSE IF Search(SlugInvalidChars, t)
             THEN last.outcome = "ValueError" /\ last.error = "contains invalid characters"
             ELSE t # <<>>
                  => (/\ last.outcome = "returned"
                      /\ last.exit = 0
                      /\ last.value = t
                      /\ last.branch_name = FEATURE_BRANCH_PREFIX \o t)

\* an input with whitespace around a legal slug was accepted as that slug
C16_Witness ==
    /\ Applied("validate_slug")
    /\ last.outcome = "returned"
    /\ Search(Whitespace, last.slug)
    /\ last.value # <<>>
    /\ last.value # last.slug
    /\ last.branch_name = FEATURE_BRANCH_PREFIX \o last.value

\* C17: validate_slug rejects every input that is empty after trimming, so
\* that no command goes on with an empty slug, the branch name feat/ or the
\* worktree base directory as the worktree path.
C17_SlugNeverEmpty ==
    Applied("validate_slug")
    => (/\ IsBlank(last.slug) => last.outcome = "ValueError"
        /\ last.outcome = "returned"
           => (/\ last.value # <<>>
               /\ last.branch_name # FEATURE_BRANCH_PREFIX
               /\ last.worktree_path # Parent(GetWorktreePath(RepoRoot, <<"a">>))))

\* the ASCII control characters among the characters of the names
ControlChars == {Bell, "\t"}

\* C18: validate_branch_name raises for every name that contains a control
\* character or two consecutive dots, starts or ends with a slash, ends with
\* .lock, contains @{, is empty or is HEAD.
C18_BranchNameRules ==
    Applied("validate_branch_name")
    => ((\/ Search(ControlChars, last.slug)
         \/ IsSubstring(DotDot, last.slug)
         \/ IsPrefix(<<"/">>, last.slug)
         \/ EndsWith(last.slug, <<"/">>)
         \/ EndsWith(last.slug, DotLock)
         \/ IsSubstring(AtBrace, last.slug)
         \/ last.slug = <<>>
         \/ last.slug = HeadName)
        => last.outcome = "ValueError")

----------------------------------------------------------------------------
(* Dry-run mode *)

\* an invocation with the global --dry-run flag
IsDryRun(r) == r.cmd # "none" /\ "dry_run" \in r.flags

DrySyncMain == SyncMain /\ IsDryRun(last')
DrySyncMainForce == SyncMainForce /\ IsDryRun(last')
DryZeroFFSync == ZeroFFSync /\ IsDryRun(last')
DryWtNew == WtNew /\ IsDryRun(last')
DryWtClean == WtClean /\ IsDryRun(last')
DryWtUpdate == WtUpdate /\ IsDryRun(last')

\* every command with --dry-run, from the states the repository, the remotes
\* and the forge get into without the tool
NextDryRun ==
    \/ DrySyncMain
    \/ DrySyncMainForce
    \/ DryZeroFFSync
    \/ DryWtNew
    \/ DryWtClean
    \/ DryWtUpdate
    \/ UpstreamAdvance
    \/ LocalCommit
    \/ Edit
    \/ Switch
    \/ Mkdir
    \/ WorktreeEdit
    \/ PushFeature
    \/ OpenPr

SpecDryRun == InitUpdate /\ [][NextDryRun]_vars

----------------------------------------------------------------------------
(* Repeated synchronisation *)

\* the invocation was a sync_main that reset the base branch to the tip of
\* upstream and pushed it
SyncedByReset(r) ==
    /\ r.cmd = "sync_main"
    /\ r.exit = 0
    /\ Did(r, "reset")
    /\ Did(r, "push")

----------------------------------------------------------------------------
(* The uncommitted-changes gate *)

\* sync_main and wt_update, among the edits of the user in the main working
\* tree and in the worktree, the commits on the feature branch and the
\* commits of upstream
NextGate ==
    \/ SyncMain
    \/ WtUpdate
    \/ Edit
    \/ WorktreeEdit
    \/ FeatureCommit
    \/ UpstreamAdvance

SpecGate == InitUpdate /\ [][NextGate]_vars

\* the invocation r starts on a dirty working tree and does not ask for the
\* auto-stash: the main working tree for sync_main, the worktree of the slug
\* for wt_update
StartsDirty(r) ==
    \/ r.cmd = "sync_main" /\ dirty # "clean"
    \/ /\ r.cmd = "wt_update"
       /\ "stash" \notin r.flags
       /\ TargetPath(r) \in DOMAIN worktrees
       /\ worktrees[TargetPath(r)].dirty

\* r made none of the steps the gate stands before
NothingRewritten(r) ==
    /\ ~Did(r, "switch")
    /\ ~Did(r, "branch")
    /\ ~Did(r, "reset")
    /\ ~Did(r, "rebase")
    /\ ~Did(r, "merge")
    /\ ~Did(r, "push")
    /\ ~Did(r, "push --force-with-lease")

\* C21 as stated: a sync_main or a wt_update started on a dirty working tree
\* without the auto-stash fails, and makes no checkout, backup branch, reset,
\* rebase, merge or push.
C21_DirtyAlwaysFails ==
    [][ StartsDirty(last') => (last'.exit = 1 /\ NothingRewritten(last')) ]_vars

\* the wt_update r has something to do: it is carried out, its fetch
\* succeeds, the feature branch is behind upstream and no preview is asked for
UpdateHasWork(r) ==
    /\ RealRun(r)
    /\ "dry_run_preview" \notin r.flags
    /\ r.outcome # "fetchFailed"
    /\ rev_list_count(heads[BranchName(r.slug)], upstreamRemote) > 0

\* C21: a sync_main or a wt_update started on a dirty working tree without
\* the auto-stash makes no checkout, backup branch, reset, rebase, merge or
\* push and leaves the branches, HEAD, the worktrees and the fork as they
\* were; sync_main always fails with the uncommitted-changes error, and
\* wt_update does whenever it has something to do.
C21_DirtyBlocksRewrite ==
    [][ StartsDirty(last')
        => (/\ NothingRewritten(last')
            /\ UNCHANGED <<heads, head, dirty, worktrees, originRemote,
                           originRef, remoteFeat>>
            /\ (last'.cmd = "sync_main" \/ UpdateHasWork(last'))
               => (last'.exit = 1 /\ last'.outcome = "uncommitted")) ]_vars

\* a wt_update was refused on a dirty worktree whose branch is behind upstream
C21_Witness ==
    /\ last.cmd = "wt_update"
    /\ last.outcome = "uncommitted"
    /\ last.exit = 1
    /\ worktrees[TargetPath(last)].dirty
    /\ rev_list_count(heads[BranchName(last.slug)], upstreamRemote) > 0

----------------------------------------------------------------------------
(* Blocked synchronisation *)

\* the sync command r stopped at a blocking precondition: the divergence of
\* the base branch in sync_main, the uncommitted changes in sync_main_force
BlockedSync(r) ==
    \/ r.cmd = "sync_main" /\ r.outcome = "blockedDiverged"
    \/ r.cmd = "sync_main_force" /\ r.outcome = "uncommitted"

\* C22: a sync_main that exits at the divergence of the base branch, or a
\* sync_main_force that exits at uncommitted changes, has mutated nothing:
\* the branches are where they were and HEAD is on what was checked out when
\* the command started.
C22_BlockedSyncMutatesNothing ==
    [][ BlockedSync(last')
        => (/\ last'.exit = 1
            /\ UNCHANGED <<heads, head, dirty, originRemote>>) ]_vars

----------------------------------------------------------------------------
(* Review requests *)

PrFoundNever(dry, returncode, listed) == FALSE

\* wt_pr: "if not self.dry_run and result.returncode == 0 and
\* result.stdout.strip() != '[]'", for the result of gh pr list
PrFound(dry, returncode, listed) == ~dry /\ returncode = 0 /\ listed

\* which call of wt_pr to the fork or to the forge fails, if any
PrNets == {"ok", "no pr list", "no push", "no pr create"}

PrEffect(rf, p, exit, outcome, ops, lookup) ==
    [remoteFeat |-> rf, prs |-> p, exit |-> exit, outcome |-> outcome,
     ops |-> ops, lookup |-> lookup]

\* GitWorkflowManager.wt_pr(slug, base, title, body, draft).  gh: the gh CLI
\* is installed and the fork owner is known; unpushed: the feature branch has
\* commits that origin does not have
wt_pr(slug, dry, gh, net, unpushed) ==
    LET branch_name == BranchName(slug)
        returncode == IF Executes(dry) /\ net = "no pr list" THEN 1 ELSE 0
        stop(exit, outcome, ops) ==
            PrEffect(remoteFeat, prs, exit, outcome, ops, returncode)
    IN
    IF ~gh THEN stop(1, "noGh", <<>>)
    ELSE IF PrFound(dry, returncode, branch_name \in prs)
    THEN stop(0, "exists", <<"pr list">>)
    ELSE IF ~Executes(dry) THEN stop(0, "done", <<>>)
    ELSE
      LET ops1 == <<"pr list", "fetch origin">>
          on_origin == branch_name \in remoteFeat
          pushes == ~on_origin \/ unpushed
          ops2 == IF pushes THEN Append(ops1, "push") ELSE ops1
          rf2 == IF pushes THEN remoteFeat \cup {branch_name} ELSE remoteFeat
          ops3 == Append(ops2, "pr create")
      IN
      IF pushes /\ (net = "no push" \/ branch_name \notin DOMAIN heads)
      THEN stop(1, "pushFailed", ops2)
      ELSE IF net = "no pr create" \/ branch_name \in prs
      THEN PrEffect(rf2, prs, 1, "createFailed", ops3, returncode)
      ELSE PrEffect(rf2, prs \cup {branch_name}, 0, "created", ops3, returncode)

\* wt_pr reads the count of unpushed commits only for a branch that is on
\* origin
UnpushedChoices(slug, dry) ==
    IF ~dry /\ BranchName(slug) \in remoteFeat THEN BOOLEAN ELSE {FALSE}

WtPr ==
    /\ InMainTree
    /\ \E slug \in Slugs, dry \in BOOLEAN, gh \in BOOLEAN :
       \E e \in { wt_pr(slug, dry, gh, net, unpushed) :
                      net \in PrNets, unpushed \in UnpushedChoices(slug, dry) } :
         /\ remoteFeat' = e.remoteFeat
         /\ prs' = e.prs
         /\ last' = Result("wt_pr", slug, Flags(<<"dry_run", "gh">>, <<dry, gh>>),
                           e.exit, e.outcome, e.ops) @@ [lookup |-> e.lookup]
    /\ UNCHANGED <<heads, head, dirty, upstreamRemote, originRemote,
                   upstreamRef, originRef, clock, worktrees, plainDirs, cwd>>

\* a maintainer of upstream merges or closes a review request
ClosePr ==
    /\ \E b \in prs : prs' = prs \ {b}
    /\ last' = NoCmd
    /\ UNCHANGED <<heads, head, dirty, upstreamRemote, originRemote,
                   upstreamRef, originRef, clock, worktrees, plainDirs,
                   remoteFeat, cwd>>

\* wt_pr, among the commits on the feature branch, its pushes and the
\* review requests opened and closed on the forge
NextPr ==
    \/ WtPr
    \/ FeatureCommit
    \/ PushFeature
    \/ OpenPr
    \/ ClosePr
    \/ WorktreeEdit

SpecPr == InitUpdate /\ [][NextPr]_vars

\* the lookup of the wt_pr r was made and returned the review request of
\* the branch
LookupFinds(r) ==
    /\ r.cmd = "wt_pr"
    /\ RealRun(r)
    /\ "gh" \in r.flags
    /\ r.lookup = 0
    /\ BranchName(r.slug) \in prs

\* C23: a wt_pr whose lookup finds a review request for the branch ends with
\* exit code 0 without a push and without creating a request, and leaves the
\* repository, the fork and the forge as they were; no wt_pr on a branch that
\* has a review request adds one.
C23_PrCreationIsIdempotent ==
    [][ /\ LookupFinds(last')
           => (/\ last'.exit = 0
               /\ last'.outcome = "exists"
               /\ ~Did(last', "push")
               /\ ~Did(last', "pr create")
               /\ UNCHANGED repoVars)
        /\ (last'.cmd = "wt_pr" /\ BranchName(last'.slug) \in prs)
           => prs' = prs ]_vars

\* a wt_pr found the review request of a branch that is on origin
C23_Witness ==
    /\ last.cmd = "wt_pr"
    /\ last.outcome = "exists"
    /\ last.exit = 0
    /\ BranchName(last.slug) \in prs
    /\ BranchName(last.slug) \in remoteFeat

----------------------------------------------------------------------------
(* Zero-checkout synchronisation *)

\* C24: a zero_ffsync, however it ends, makes no checkout and no reset: HEAD,
\* every local branch, the working tree with its index and the worktrees are
\* after the command what they were before it.
C24_ZeroSyncLeavesLocalAlone ==
    [][ last'.cmd = "zero_ffsync"
        => (/\ ~Did(last', "switch")
            /\ ~Did(last', "reset")
            /\ UNCHANGED <<heads, head, dirty, worktrees, plainDirs>>) ]_vars

\* a zero_ffsync moved the fork to the tip of upstream while the local base
\* branch stayed behind it
C24_Witness ==
    /\ last.cmd = "zero_ffsync"
    /\ last.outcome = "done"
    /\ Did(last, "push")
    /\ originRemote = upstreamRemote
    /\ heads[base] # upstreamRemote

----------------------------------------------------------------------------
(* Order of the steps of sync_main *)

\* C25: a sync_main pushes to the fork only after it has, in the same
\* invocation, reset the base branch to the tip of upstream/base; when the
\* base branch has nothing to take from upstream, or has diverged from it,
\* no push is made and the fork stays as it was.
C25_PushOnlyAfterReset ==
    [][ last'.cmd = "sync_main"
        => (/\ Did(last', "push")
               => (/\ DidBefore(last', "reset", "push")
                   /\ heads'[base] = upstreamRef'
                   /\ upstreamRef' = upstreamRemote)
            /\ (\/ iter_commits(heads[base], upstreamRemote) = {}
                \/ ~IsAncestor(heads[base], upstreamRemote)
                \/ last'.outcome \in {"upToDate", "blockedDiverged"})
               => (~Did(last', "push") /\ UNCHANGED originRemote)) ]_vars

\* a sync_main reset the base branch to a new tip of upstream and pushed it
C25_Witness ==
    /\ last.cmd = "sync_main"
    /\ last.ops = <<"fetch upstream", "switch", "reset", "push">>
    /\ heads[base] = upstreamRemote
    /\ heads[base] # <<>>

----------------------------------------------------------------------------
(* The push of an update *)

\* the number of calls op among the calls of r
Count(r, op) == Cardinality({ i \in DOMAIN r.ops : r.ops[i] = op })

\* C26: a wt_update never makes an unconditional force push and pushes at
\* most once, also when the push fails; after a rebase the push is the
\* force-with-lease one, after a merge the plain one, and an update that
\* rewrote the branch and ended successfully made exactly that push.
C26_UpdateNeverForcePushes ==
    [][ last'.cmd = "wt_update"
        => (/\ ~Did(last', "push --force")
            /\ Count(last', "push") + Count(last', "push --force-with-lease") <= 1
            /\ Did(last', "push --force-with-lease")
               => (Did(last', "rebase") /\ "merge" \notin last'.flags)
            /\ Did(last', "push")
               => (Did(last', "merge") /\ "merge" \in last'.flags)
            /\ (last'.exit = 0 /\ Did(last', "rebase"))
               => Did(last', "push --force-with-lease")
            /\ (last'.exit = 0 /\ Did(last', "merge"))
               => Did(last', "push")) ]_vars

\* an update by merge ended successfully behind a plain push
C26_Witness ==
    /\ last.cmd = "wt_update"
    /\ last.outcome = "done"
    /\ last.exit = 0
    /\ Did(last, "merge")
    /\ Did(last, "push")
    /\ BranchName(last.slug) \in remoteFeat

----------------------------------------------------------------------------
(* No-op and preview paths *)

\* wt_update and wt_clean on the worktree of a feature, among the commits on
\* the feature branch and on upstream, the edits in the worktree and the
\* pushes of the feature branch
NextPreview ==
    \/ WtUpdate
    \/ WtClean
    \/ FeatureCommit
    \/ UpstreamAdvance
    \/ WorktreeEdit
    \/ PushFeature

SpecPreview == InitUpdate /\ [][NextPreview]_vars

\* r is a wt_update that finds the feature branch zero commits behind
\* upstream/base, a wt_update with the preview flag or a wt_clean with the
\* preview flag
NoOpOrPreview(r) ==
    \/ /\ r.cmd = "wt_update"
       /\ TargetPath(r) \in DOMAIN worktrees
       /\ rev_list_count(heads[BranchName(r.slug)], upstreamRemote) = 0
    \/ r.cmd = "wt_update" /\ "dry_run_preview" \in r.flags
    \/ r.cmd = "wt_clean" /\ "dry_run_preview" \in r.flags

\* C27: a wt_update that finds nothing to take from upstream, a wt_update with
\* the preview flag and a wt_clean with the preview flag make no stash, no
\* backup branch, no rebase or merge, no push, no worktree removal, no branch
\* deletion and no prune, and leave the branches, the worktrees, the fork and
\* the forge as they were.
C27_NoOpAndPreviewMutateNothing ==
    [][ NoOpOrPreview(last')
        => (/\ \A i \in DOMAIN last'.ops : last'.ops[i] = "fetch upstream"
            /\ UNCHANGED <<heads, head, dirty, worktrees, plainDirs,
                           originRemote, remoteFeat, prs>>) ]_vars

\* a wt_clean with the preview flag returned on a feature whose worktree,
\* local branch and remote branch all exist
C27_Witness ==
    /\ last.cmd = "wt_clean"
    /\ last.outcome = "preview"
    /\ last.exit = 0
    /\ TargetPath(last) \in DOMAIN worktrees
    /\ BranchName(last.slug) \in DOMAIN heads
    /\ BranchName(last.slug) \in remoteFeat

----------------------------------------------------------------------------
(* Validation of the names a command derives *)

\* the slug arguments the commands are invoked with: a legal one, one in
\* need of trimming, one with a reserved character, and two that make a
\* branch name git refuses
RawArgs == { <<"a">>, <<" ", "a">>, <<"a", "~">>, AtBrace, DotLock }

\* wt_new(slug): validate_slug, then validate_branch_name on feat/{slug},
\* then the command; an uncaught ValueError ends the process with exit code 1
WtNewArg ==
    /\ InMainTree
    /\ \E raw \in RawArgs, dry \in BOOLEAN :
         LET s == validate_slug(raw)
             b == validate_branch_name(BranchName(s.value))
         IN
         IF ~s.ok \/ ~b.ok
         THEN /\ last' = Result("wt_new", raw, Flags(<<"dry_run">>, <<dry>>),
                                1, "ValueError", <<>>)
              /\ UNCHANGED <<heads, head, dirty, upstreamRef, originRemote,
                             originRef, worktrees>>
         ELSE \E e \in { wt_new(s.value, dry, net) : net \in Nets } :
                /\ Apply(e)
                /\ worktrees' = e.worktrees
                /\ last' = Result("wt_new", s.value,
                                  Flags(<<"dry_run">>, <<dry>>),
                                  e.exit, e.outcome, e.ops)
    /\ UNCHANGED <<upstreamRemote, clock, plainDirs, remoteFeat, prs, cwd>>

\* wt_clean(slug): validate_slug, then the command
WtCleanArg ==
    /\ \E raw \in RawArgs, dry_run_preview \in BOOLEAN, confirm \in BOOLEAN,
          dry \in BOOLEAN :
         LET s == validate_slug(raw)
             flags == Flags(<<"dry_run_preview", "confirm", "dry_run", "gh">>,
                            <<dry_run_preview, confirm, dry, TRUE>>)
         IN
         IF ~s.ok
         THEN /\ last' = Result("wt_clean", raw, flags, 1, "ValueError", <<>>)
              /\ UNCHANGED <<worktrees, heads, remoteFeat>>
         ELSE \E force_delete \in ForceDeleteChoices(s.value),
                 wt_force \in WtForceChoices, net \in NetChoices(s.value) :
                LET e == wt_clean(s.value, force_delete, wt_force,
                                  dry_run_preview, confirm, dry, TRUE, net) IN
                /\ worktrees' = e.worktrees
                /\ heads' = e.heads
                /\ remoteFeat' = e.remoteFeat
                /\ last' = Result("wt_clean", s.value, flags,
                                  e.exit, e.outcome, e.ops)
    /\ UNCHANGED <<head, dirty, upstreamRemote, originRemote, upstreamRef,
                   originRef, clock, plainDirs, prs, cwd>>

\* wt_new and wt_clean with any slug argument, among the edits in the
\* worktrees and the pushes of the feature branches
NextNames ==
    \/ WtNewArg
    \/ WtCleanArg
    \/ WorktreeEdit
    \/ PushFeature
    \/ UpstreamAdvance

SpecNames == Init /\ [][NextNames]_vars

\* C28: a command that derives a branch name from its slug argument has run
\* validate_slug and validate_branch_name before its first command to git
\* or to the forge: no command is carried out for a slug whose branch name
\* one of the two refuses.
C28_NamesValidatedBeforeAnyCall ==
    [][ (last'.cmd \in {"wt_new", "wt_clean"} /\ last'.ops # <<>>)
        => (/\ validate_slug(last'.slug).ok
            /\ validate_branch_name(BranchName(last'.slug)).ok) ]_vars

----------------------------------------------------------------------------
(* BashCommandLogger *)

\* most entries of the command log of one session
MaxLog == 3

\* the commands given to the logger
BashCmds == {"git fetch upstream", "git status --porcelain"}

\* what a command writes to its standard output
Stdouts == {"", "out"}

\* CommandEntry.result before it is set
None == "None"

\* CommandEntry(command=bash_cmd), with timestamp = datetime.now()
CommandEntry(bash_cmd) ==
    [command |-> bash_cmd, timestamp |-> clock, executed |-> FALSE,
     result |-> None]

PrependEntry(commands, entry) == <<entry>> \o commands

\* self.commands.append(entry)
AppendEntry(commands, entry) == Append(commands, entry)

\* BashCommandLogger.log(bash_cmd)
log(commands, bash_cmd) == AppendEntry(commands, CommandEntry(bash_cmd))

\* BashCommandLogger.execute(bash_cmd, check, capture_output), for a command
\* that ends with returncode and writes stdout: the log it leaves, also when
\* subprocess.run raises CalledProcessError
execute(commands, dry, bash_cmd, check, capture_output, returncode, stdout) ==
    LET logged == log(commands, bash_cmd)
        n == Len(logged)
        marked == IF logged # <<>>
                  THEN [logged EXCEPT ![n].executed = TRUE] ELSE logged
    IN
    IF ~Executes(dry) THEN logged
    ELSE IF check /\ returncode # 0 THEN marked
    ELSE IF marked # <<>>
    THEN [marked EXCEPT ![Len(marked)].result =
             IF capture_output THEN stdout ELSE "executed"]
    ELSE marked

\* the logger of a session: BashCommandLogger.__init__
Session(dry, commands) ==
    Result("session", NoSlug, Flags(<<"dry_run">>, <<dry>>), 0, "running", <<>>)
        @@ [commands |-> commands]

Log ==
    /\ last.cmd = "session"
    /\ Len(last.commands) < MaxLog
    /\ \E bash_cmd \in BashCmds :
         last' = [last EXCEPT !.commands = log(@, bash_cmd)]
    /\ UNCHANGED <<repoVars, clock, cwd>>

Execute ==
    /\ last.cmd = "session"
    /\ Len(last.commands) < MaxLog
    /\ \E bash_cmd \in BashCmds, check \in BOOLEAN, capture_output \in BOOLEAN,
          returncode \in {0, 1}, stdout \in Stdouts :
         last' = [last EXCEPT !.commands =
                     execute(@, "dry_run" \in last.flags, bash_cmd, check,
                             capture_output, returncode, stdout)]
    /\ UNCHANGED <<repoVars, clock, cwd>>

\* time passes between two calls of the session
Wait ==
    /\ last.cmd = "session"
    /\ clock < MaxClock
    /\ clock' = clock + 1
    /\ UNCHANGED <<repoVars, cwd, last>>

InitLog ==
    /\ heads = [b \in {base} |-> <<>>]
    /\ head = base
    /\ dirty = "clean"
    /\ upstreamRemote = <<>>
    /\ originRemote = <<>>
    /\ upstreamRef = <<>>
    /\ originRef = <<>>
    /\ clock = 0
    /\ worktrees = <<>>
    /\ plainDirs = {}
    /\ remoteFeat = {}
    /\ prs = {}
    /\ cwd = RepoRoot
    /\ last \in { Session(dry, <<>>) : dry \in BOOLEAN }

\* the calls of one session to its logger, as time passes
NextLog ==
    \/ Log
    \/ Execute
    \/ Wait

SpecLog == InitLog /\ [][NextLog]_vars

\* C29: every call of log or execute adds exactly one entry at the end of
\* the command log and leaves the entries that were there as they were, in
\* their order; the entry added carries the command and the time of the
\* call, and only an execute that is carried out marks it executed or gives
\* it a result.
C29_LogIsAppendOnly ==
    [][ (last.cmd = "session" /\ last' # last)
        => /\ last'.cmd = "session"
           /\ LET old == last.commands
               new == last'.commands
             IN
             /\ Len(new) = Len(old) + 1
             /\ SubSeq(new, 1, Len(old)) = old
             /\ new[Len(new)].command \in BashCmds
             /\ new[Len(new)].timestamp = clock
             /\ \A i \in DOMAIN old :
                  old[i].timestamp <= new[Len(new)].timestamp
             /\ new[Len(new)].result # None => new[Len(new)].executed
             /\ "dry_run" \in last.flags => ~new[Len(new)].executed ]_vars

\* a log of three entries: one executed with its output kept, one executed
\* that raised, one only logged
C29_Witness ==
    /\ last.cmd = "session"
    /\ Len(last.commands) = 3
    /\ last.commands[1].executed /\ last.commands[1].result = "out"
    /\ last.commands[2].executed /\ last.commands[2].result = None
    /\ ~last.commands[3].executed
    /\ last.commands[1].timestamp < last.commands[3].timestamp

----------------------------------------------------------------------------
(* Backup branches *)

\* the commands that create, move or delete branches, carried out for real
RunSyncMain == SyncMain /\ RealRun(last')
RunSyncMainForce == SyncMainForce /\ RealRun(last')
RunWtUpdate == WtUpdate /\ RealRun(last')
RunWtClean == WtClean /\ RealRun(last')

\* the four commands, among the commits of the user and of upstream and the
\* passing of time
NextBackup ==
    \/ RunSyncMain
    \/ RunSyncMainForce
    \/ RunWtUpdate
    \/ RunWtClean
    \/ FeatureCommit
    \/ UpstreamAdvance
    \/ Tick

SpecBackup == InitUpdate /\ [][NextBackup]_vars

\* C30: no step deletes or moves a backup branch: every backup branch that
\* exists before a sync, force sync, update or clean exists after it and
\* points at the same commit.
C30_BackupsArePermanent ==
    [][ \A b \in DOMAIN heads :
          IsBackup(b) => (b \in DOMAIN heads' /\ heads'[b] = heads[b]) ]_vars

\* a backup branch of the base branch and a backup branch of the feature
\* branch are both there after a clean has deleted the feature branch and a
\* force sync has moved the base branch off the commit that was backed up
C30_Witness ==
    /\ BranchName(UpdatedSlug) \notin DOMAIN heads
    /\ \E b \in DOMAIN heads :
         /\ IsBackup(b)
         /\ IsPrefix(BACKUP_BRANCH_PREFIX \o BranchName(UpdatedSlug), b)
    /\ \E b \in DOMAIN heads :
         /\ IsBackup(b)
         /\ IsPrefix(BACKUP_BRANCH_PREFIX \o base, b)
         /\ heads[b] # heads[base]

----------------------------------------------------------------------------
(* Title and body of a review request *)

\* longest title or body
MaxTextLen == 3

\* the double quote, the backtick, the backslash and the newline, by name
DQuote == "QUOTE"
Dollar == "$"
Backtick == "BACKTICK"
Backslash == "BACKSLASH"
Newline == "LF"

\* the characters of a title or body: a letter and the ones the shell reads
\* inside double quotes
TextAlphabet == {"a", DQuote, Dollar, Backtick, Backslash, Newline}

Texts == UNION { [1 .. n -> TextAlphabet] : n \in 0 .. MaxTextLen }

\* str.replace(old, new) for a one-character old
RECURSIVE replace(_, _, _)
replace(s, old, new) ==
    IF s = <<>> THEN <<>>
    ELSE (IF s[1] = old THEN new ELSE <<s[1]>>) \o replace(Tail(s), old, new)

\* title_escaped, body_escaped: three replace calls, which put a backslash
\* before each double quote, each dollar sign and each backtick
escaped(text) ==
    replace(replace(replace(text, DQuote, <<Backslash, DQuote>>),
                    Dollar, <<Backslash, Dollar>>),
            Backtick, <<Backslash, Backtick>>)

\* what /bin/sh makes of the characters after an opening double quote, from
\* position i on: the argument gathered up to the quote that closes it, where
\* that quote is (0: none), and whether a parameter expansion or a command
\* substitution was met.  Inside double quotes a backslash quotes only a
\* dollar sign, a backtick, a double quote and a backslash, and is dropped
\* with a newline that follows it.
RECURSIVE sh_double_quoted(_, _, _, _)
sh_double_quoted(w, i, arg, expanded) ==
    IF i > Len(w) THEN [arg |-> arg, closed |-> 0, expanded |-> expanded]
    ELSE IF w[i] = DQuote THEN [arg |-> arg, closed |-> i, expanded |-> expanded]
    ELSE IF w[i] = Backslash /\ i < Len(w)
                             /\ w[i + 1] \in {DQuote, Dollar, Backtick, Backslash}
    THEN sh_double_quoted(w, i + 2, Append(arg, w[i + 1]), expanded)
    ELSE IF w[i] = Backslash /\ i < Len(w) /\ w[i + 1] = Newline
    THEN sh_double_quoted(w, i + 2, arg, expanded)
    ELSE IF w[i] = Dollar /\ i < Len(w) /\ w[i + 1] = "a"
    THEN sh_double_quoted(w, i + 2, arg, TRUE)
    ELSE IF w[i] = Backtick
    THEN [arg |-> arg, closed |-> 0, expanded |-> TRUE]
    ELSE sh_double_quoted(w, i + 1, Append(arg, w[i]), expanded)

\* the escaped text between double quotes in the command line handed to
\* subprocess.run(shell=True): the argument gh receives
Delivered(option, text) ==
    LET w == escaped(text) \o <<DQuote>>
        r == sh_double_quoted(w, 1, <<>>, FALSE)
    IN Result(option, text, {}, 0, "delivered", <<"pr create">>)
         @@ [escaped |-> escaped(text), arg |-> r.arg,
             closed |-> (r.closed = Len(w)), expanded |-> r.expanded]

PrTitle ==
    /\ last.cmd = "title"
    /\ last.outcome = "argument"
    /\ last' = Delivered("title", last.slug)
    /\ UNCHANGED <<repoVars, clock, cwd>>

PrBody ==
    /\ last.cmd = "body"
    /\ last.outcome = "argument"
    /\ last' = Delivered("body", last.slug)
    /\ UNCHANGED <<repoVars, clock, cwd>>

InitText ==
    /\ heads = [b \in {base} |-> <<>>]
    /\ head = base
    /\ dirty = "clean"
    /\ upstreamRemote = <<>>
    /\ originRemote = <<>>
    /\ upstreamRef = <<>>
    /\ originRef = <<>>
    /\ clock = 0
    /\ worktrees = <<>>
    /\ plainDirs = {}
    /\ remoteFeat = {}
    /\ prs = {}
    /\ cwd = RepoRoot
    /\ last \in { Argument(option, text) :
                    option \in {"title", "body"}, text \in Texts }

NextText ==
    \/ PrTitle
    \/ PrBody

SpecText == InitText /\ [][NextText]_vars

\* C31: the argument the shell hands to gh for --title or --body is the text
\* that was given, the quote that closes it is the one the command wrote
\* after it, and nothing in it was expanded or run.
C31_TextReachesForgeAsGiven ==
    last.outcome = "delivered"
    => (last.arg = last.slug /\ last.closed /\ ~last.expanded)

----------------------------------------------------------------------------
(* Attempts on the network *)

\* no failed command to report
NoFailure == "none"

\* what a wt_status leaves: the remote-tracking refs, and the fetch that
\* failed, if one did
StatusEffect(ur, orf, exit, outcome, ops, failed) ==
    Effect(heads, head, dirty, ur, originRemote, orf, exit, outcome, ops)
        @@ [failed |-> failed]

\* a status that makes a failed fetch of upstream a second time
wt_status_retry(slug, dry, net) ==
    IF ~Exists(GetWorktreePath(Root(cwd), slug))
    THEN StatusEffect(upstreamRef, originRef, 1, "notFound", <<>>, NoFailure)
    ELSE IF ~Executes(dry)
    THEN StatusEffect(upstreamRef, originRef, 0, "done", <<>>, NoFailure)
    ELSE IF net = "no fetch upstream"
    THEN StatusEffect(upstreamRemote, originRemote, 0, "shown",
                      <<"fetch upstream", "fetch upstream", "fetch origin">>,
                      "fetch upstream")
    ELSE StatusEffect(upstreamRemote,
                      IF net = "no fetch origin" THEN originRef ELSE originRemote,
                      0, "shown", <<"fetch upstream", "fetch origin">>,
                      IF net = "no fetch origin" THEN "fetch origin" ELSE NoFailure)

\* GitWorkflowManager.wt_status(slug): both fetches are run with check=False,
\* so the second is made whatever the first came to, and the status is shown
wt_status(slug, dry, net) ==
    IF ~Exists(GetWorktreePath(Root(cwd), slug))
    THEN StatusEffect(upstreamRef, originRef, 1, "notFound", <<>>, NoFailure)
    ELSE IF ~Executes(dry)
    THEN StatusEffect(upstreamRef, originRef, 0, "done", <<>>, NoFailure)
    ELSE StatusEffect(
           IF net = "no fetch upstream" THEN upstreamRef ELSE upstreamRemote,
           IF net = "no fetch origin" THEN originRef ELSE originRemote,
           0, "shown", <<"fetch upstream", "fetch origin">>,
           IF net = "no fetch upstream" THEN "fetch upstream"
           ELSE IF net = "no fetch origin" THEN "fetch origin" ELSE NoFailure)

\* the fetches of a status can fail; it pushes nothing
StatusNets == {"ok", "no fetch origin", "no fetch upstream"}

WtStatus ==
    /\ InMainTree
    /\ \E slug \in Slugs, dry \in BOOLEAN :
       \E e \in { wt_status(slug, dry, net) : net \in StatusNets } :
         /\ Apply(e)
         /\ last' = Result("wt_status", slug, Flags(<<"dry_run">>, <<dry>>),
                           e.exit, e.outcome, e.ops) @@ [failed |-> e.failed]
    /\ UNCHANGED <<upstreamRemote, clock, worktrees, plainDirs, remoteFeat,
                   prs, cwd>>

\* the commands that fetch or push, among the commits of upstream; wt_new
\* reaches the network through sync_main only
NextNet ==
    \/ SyncMain
    \/ SyncMainForce
    \/ ZeroFFSync
    \/ WtUpdate
    \/ WtPr
    \/ WtClean
    \/ WtStatus
    \/ UpstreamAdvance

SpecNet == InitUpdate /\ [][NextNet]_vars

\* the commands sent to a remote
Pushes ==
    {"push", "push --force-with-lease", "push --force", "push --delete"}
Fetches == {"fetch upstream", "fetch origin"}

\* how many of the commands of r are in the set
Attempts(r, set) == Cardinality({ i \in DOMAIN r.ops : r.ops[i] \in set })

\* where in the commands of r the one that failed is, 0 if none did
FailedAt(r) ==
    IF r.cmd = "wt_status"
    THEN IF r.failed = NoFailure THEN 0
         ELSE CHOOSE i \in DOMAIN r.ops : r.ops[i] = r.failed
    ELSE IF r.outcome \in {"fetchFailed", "pushFailed"} THEN Len(r.ops)
    ELSE 0

----------------------------------------------------------------------------
(* Two updates within one second *)

\* the repository after a first wt_update of the first slug has backed up
\* the feature branch, rebased and pushed it, and upstream has gained a
\* further commit, all within the second of the clock
InitSameSecond ==
    /\ heads = create_head(
                 create_head([b \in {base} |-> <<>>], BranchName(UpdatedSlug),
                             Rebased(<<FeatureCommitLabel>>, <<1>>)),
                 BackupName(BranchName(UpdatedSlug), 0), <<FeatureCommitLabel>>)
    /\ head = base
    /\ dirty = "clean"
    /\ upstreamRemote = <<1, 1>>
    /\ originRemote = <<>>
    /\ upstreamRef = <<1>>
    /\ originRef = <<>>
    /\ clock = 0
    /\ worktrees = AddWorktree([p \in {} |-> 0],
                               GetWorktreePath(RepoRoot, UpdatedSlug),
                               BranchName(UpdatedSlug))
    /\ plainDirs = {}
    /\ remoteFeat = {BranchName(UpdatedSlug)}
    /\ prs = {}
    /\ cwd = RepoRoot
    /\ last = NoCmd

\* the next update, among the edits in the worktree and the passing of time
NextSameSecond ==
    \/ WtUpdate
    \/ AbortRewrite
    \/ WorktreeEdit
    \/ Tick

SpecSameSecond == InitSameSecond /\ [][NextSameSecond]_vars

\* C33: a wt_update that starts a rebase or merge without --no-backup, or
\* that names a backup branch, leaves a branch of that name at the tip the
\* feature branch had before; when the backup branch cannot be created,
\* nothing is rewritten.
C33_BackupIsAtTheOldTip ==
    [][ (/\ last'.cmd = "wt_update"
         /\ \/ last'.backup # NoBackup
            \/ /\ "no_backup" \notin last'.flags
               /\ \E i \in DOMAIN last'.ops : last'.ops[i] \in {"rebase", "merge"})
        => (/\ last'.backup # NoBackup
            /\ last'.backup \in DOMAIN heads'
            /\ heads'[last'.backup] = heads[BranchName(last'.slug)]) ]_vars

----------------------------------------------------------------------------
(* A worktree for a branch that exists *)

\* create and clean, among the commits of the user and of upstream
NextRebind ==
    \/ WtNew
    \/ WtClean
    \/ FeatureCommit
    \/ UpstreamAdvance

SpecRebind == InitUpdate /\ [][NextRebind]_vars

\* r is a wt_new carried out for real that found nothing at its path and
\* added the worktree
AddedWorktree(r) ==
    /\ r.cmd = "wt_new"
    /\ "dry_run" \notin r.flags
    /\ r.outcome = "done"
    /\ TargetPath(r) \notin DOMAIN worktrees

\* C34: a wt_new that adds a worktree where the branch feat/{slug} exists
\* binds the worktree to that branch, creates no branch and leaves its tip
\* where it was; where no such branch exists it creates the branch at the
\* tip of the base branch.
C34_ExistingBranchIsReused ==
    [][ AddedWorktree(last')
        => LET branch_name == BranchName(last'.slug) IN
           /\ worktrees'[TargetPath(last')].branch = branch_name
           /\ IF branch_name \in DOMAIN heads
              THEN /\ DOMAIN heads' = DOMAIN heads
                   /\ heads'[branch_name] = heads[branch_name]
                   /\ last'.ops[Len(last'.ops)] = "worktree add"
              ELSE /\ DOMAIN heads' = DOMAIN heads \cup {branch_name}
                   /\ heads'[branch_name] = heads'[base]
                   /\ last'.ops[Len(last'.ops)] = "worktree add -b" ]_vars

\* a worktree was added for a branch that existed with a commit of its own,
\* which the base branch does not have
C34_Witness ==
    /\ last.cmd = "wt_new"
    /\ last.outcome = "done"
    /\ "dry_run" \notin last.flags
    /\ last.ops[Len(last.ops)] = "worktree add"
    /\ heads[BranchName(last.slug)] # heads[base]
    /\ FeatureCommitLabel \in { heads[BranchName(last.slug)][i] :
                                  i \in DOMAIN heads[BranchName(last.slug)] }

----------------------------------------------------------------------------
(* Remote topology and the setup commands *)

\* RepoConfig.DEFAULT_UPSTREAM_REPO, as owner and name
DEFAULT_UPSTREAM_REPO == [owner |-> "humanlayer", name |-> <<"h">>]

\* the owners and the names of the repositories on the forge; a name is a
\* sequence of characters, and may hold a dot
Owners == {"o", "u"}
RepoNames == { <<"r">>, <<"r", ".", "j">> }
RepoIds == [owner : Owners, name : RepoNames]

\* a remote URL: git@host:owner/name.git or https://host/owner/name.git
RemoteUrl(https, host, repo) == [https |-> https, host |-> host, repo |-> repo]

GitHub == "github.com"
Urls ==
    { RemoteUrl(https, GitHub, repo) : https \in BOOLEAN, repo \in RepoIds }
        \cup { RemoteUrl(FALSE, "example.org", [owner |-> "o", name |-> <<"r">>]) }

\* the remotes of a repository: a URL for each name that is configured
RemoteConfigs ==
    UNION { [names -> Urls] : names \in SUBSET {"origin", "upstream"} }

\* a login or owner that was not detected
Absent == "absent"

\* the characters of name before its first dot: the class [^/.]+ of the
\* pattern of _detect_upstream_repo
RECURSIVE UpToDot(_)
UpToDot(name) ==
    IF name = <<>> \/ name[1] = "." THEN <<>>
    ELSE <<name[1]>> \o UpToDot(Tail(name))

\* GitWorkflowManager._detect_fork_owner: the owner in the URL of origin,
\* else the login gh reports, which dry-run does not ask for
detect_fork_owner(remotes, dry, gh_user) ==
    IF "origin" \in DOMAIN remotes /\ remotes.origin.host = GitHub
    THEN remotes.origin.repo.owner
    ELSE IF Executes(dry) THEN gh_user ELSE Absent

\* GitWorkflowManager._detect_upstream_repo
detect_upstream_repo(remotes) ==
    IF "upstream" \in DOMAIN remotes /\ remotes.upstream.host = GitHub
    THEN [owner |-> remotes.upstream.repo.owner,
          name |-> UpToDot(remotes.upstream.repo.name)]
    ELSE DEFAULT_UPSTREAM_REPO

\* the process of one command: GitWorkflowManager.__init__ has detected the
\* topology from the remotes of the repository
Manager(dry, remotes, pull_ff, gh_user) ==
    Result("manager", NoSlug, Flags(<<"dry_run">>, <<dry>>), 0, "running", <<>>)
        @@ [remotes |-> remotes, pull_ff |-> pull_ff, gh_user |-> gh_user,
            fork_owner |-> detect_fork_owner(remotes, dry, gh_user),
            upstream_repo |-> detect_upstream_repo(remotes)]

\* an upstream_add that takes the update flag as given
NeedsUpdateFlagNever(existing_url, upstream_url, update) == FALSE

\* upstream_add: the existing upstream differs and --update was not given
NeedsUpdateFlag(existing_url, upstream_url, update) ==
    existing_url # upstream_url /\ ~update

\* the values of --repo: not given, given without a slash, given as
\* owner/name
RepoOption(given, wellformed, repo) ==
    [given |-> given, wellformed |-> wellformed, repo |-> repo]
RepoOptions ==
    { RepoOption(FALSE, TRUE, DEFAULT_UPSTREAM_REPO),
      RepoOption(TRUE, FALSE, DEFAULT_UPSTREAM_REPO) }
        \cup { RepoOption(TRUE, TRUE, repo) : repo \in RepoIds }

\* remotes with the URL of one name set
SetUrl(remotes, name, url) ==
    [n \in DOMAIN remotes \cup {name} |-> IF n = name THEN url ELSE remotes[n]]

\* GitWorkflowManager.upstream_add(repo_upstream, update) in the process m
upstream_add(m, repo_upstream, update) ==
    IF repo_upstream.given /\ ~repo_upstream.wellformed
    THEN [m EXCEPT !.exit = 1, !.outcome = "ValueError"]
    ELSE
      LET dry == "dry_run" \in m.flags
          repo == IF repo_upstream.given THEN repo_upstream.repo
                  ELSE m.upstream_repo
          m1 == [m EXCEPT !.upstream_repo = repo]
          upstream_url ==
              RemoteUrl("origin" \in DOMAIN m.remotes /\ m.remotes.origin.https,
                        GitHub, repo)
          written == IF Executes(dry) THEN SetUrl(m.remotes, "upstream", upstream_url)
                     ELSE m.remotes
          configured(remotes, ops) ==
              [m1 EXCEPT !.exit = 0, !.outcome = "done",
                         !.remotes = remotes,
                         !.ops = IF Executes(dry) THEN ops ELSE <<>>,
                         !.pull_ff = IF Executes(dry) THEN "only" ELSE @]
      IN
      IF "upstream" \in DOMAIN m.remotes
      THEN IF m.remotes.upstream = upstream_url
           THEN configured(m.remotes, <<"config pull.ff">>)
           ELSE IF NeedsUpdateFlag(m.remotes.upstream, upstream_url, update)
           THEN [m1 EXCEPT !.exit = 1, !.outcome = "needsUpdate"]
           ELSE configured(written, <<"remote set-url upstream", "config pull.ff">>)
      ELSE configured(written, <<"remote add upstream", "config pull.ff">>)

UpstreamAdd ==
    /\ last.cmd = "manager"
    /\ last.outcome = "running"
    /\ \E repo_upstream \in RepoOptions, update \in BOOLEAN :
         last' = [upstream_add(last, repo_upstream, update) EXCEPT
                     !.cmd = "upstream_add",
                     !.flags = @ \cup (IF update THEN {"update"} ELSE {})]
    /\ UNCHANGED <<repoVars, clock, cwd>>

\* fork_setup: "if self.upstream_repo in origin_url", a test on substrings
PointsAt(url, repo) ==
    url.repo.owner = repo.owner /\ IsPrefix(repo.name, url.repo.name)

\* GitWorkflowManager.fork_setup() in the process m.  gh: the gh CLI is
\* installed; forked: the fork exists or gh creates it
fork_setup(m, gh, forked) ==
    LET dry == "dry_run" \in m.flags
        github_user == IF Executes(dry) THEN m.gh_user ELSE "YOUR_USERNAME"
        fork_url == RemoteUrl(FALSE, GitHub,
                              [owner |-> github_user, name |-> m.upstream_repo.name])
        r0 == m.remotes
        fix == "origin" \in DOMAIN r0 /\ PointsAt(r0.origin, m.upstream_repo)
        r1 == IF ~fix \/ ~Executes(dry) THEN r0
              ELSE IF "upstream" \notin DOMAIN r0
              THEN [n \in {"upstream"} |-> r0.origin]
              ELSE [n \in {"upstream"} |-> r0.upstream]
        ops1 == IF ~fix THEN <<>>
                ELSE IF "upstream" \notin DOMAIN r0 THEN <<"remote rename origin">>
                ELSE <<"remote remove origin">>
        setOrigin == "origin" \notin DOMAIN r1 \/ r1.origin.repo.owner # github_user
        r2 == IF setOrigin /\ Executes(dry) THEN SetUrl(r1, "origin", fork_url) ELSE r1
        ops2 == IF "origin" \notin DOMAIN r1 THEN Append(ops1, "remote add origin")
                ELSE IF setOrigin THEN Append(ops1, "remote set-url origin")
                ELSE ops1
        addUp == "upstream" \notin DOMAIN r2
        r3 == IF addUp /\ Executes(dry)
              THEN SetUrl(r2, "upstream", RemoteUrl(FALSE, GitHub, m.upstream_repo))
              ELSE r2
        ops3 == IF addUp THEN Append(ops2, "remote add upstream") ELSE ops2
    IN
    IF ~gh THEN [m EXCEPT !.exit = 1, !.outcome = "noGh"]
    ELSE IF Executes(dry) /\ m.gh_user = Absent
    THEN [m EXCEPT !.exit = 1, !.outcome = "notAuthenticated"]
    ELSE IF Executes(dry) /\ ~forked
    THEN [m EXCEPT !.exit = 1, !.outcome = "forkFailed"]
    ELSE [m EXCEPT !.exit = 0, !.outcome = "done", !.remotes = r3,
                   !.ops = IF Executes(dry) THEN ops3 ELSE <<>>]

ForkSetup ==
    /\ last.cmd = "manager"
    /\ last.outcome = "running"
    /\ \E gh \in BOOLEAN, forked \in BOOLEAN :
         last' = [fork_setup(last, gh, forked) EXCEPT !.cmd = "fork_setup"]
    /\ UNCHANGED <<repoVars, clock, cwd>>

InitTopology ==
    /\ heads = [b \in {base} |-> <<>>]
    /\ head = base
    /\ dirty = "clean"
    /\ upstreamRemote = <<>>
    /\ originRemote = <<>>
    /\ upstreamRef = <<>>
    /\ originRef = <<>>
    /\ clock = 0
    /\ worktrees = <<>>
    /\ plainDirs = {}
    /\ remoteFeat = {}
    /\ prs = {}
    /\ cwd = RepoRoot
    /\ last \in { Manager(dry, remotes, pull_ff, gh_user) :
                    dry \in BOOLEAN, remotes \in RemoteConfigs,
                    pull_ff \in {"unset", "only"}, gh_user \in {Absent, "u"} }

\* one setup command in a process that has detected its topology
NextTopology ==
    \/ UpstreamAdd
    \/ ForkSetup

SpecTopology == InitTopology /\ [][NextTopology]_vars

\* C35: no command changes the fork owner or the upstream identifier that
\* the process detected when it started.
C35_TopologyIsFixed ==
    [][ (last.cmd = "manager" /\ last'.cmd \in {"upstream_add", "fork_setup"})
        => (/\ last'.fork_owner = last.fork_owner
            /\ last'.upstream_repo = last.upstream_repo) ]_vars

\* C39: an upstream_add that finds an upstream remote whose URL differs from
\* the one it computes, and was not given --update, exits non-zero and
\* leaves the remotes and the pull.ff setting as they were; one that finds
\* the URL it computes leaves the remotes as they were.
C39_UpstreamKeptWithoutUpdate ==
    [][ (/\ last.cmd = "manager"
         /\ last'.cmd = "upstream_add"
         /\ "upstream" \in DOMAIN last.remotes)
        => LET computed ==
                 RemoteUrl("origin" \in DOMAIN last.remotes
                             /\ last.remotes.origin.https,
                           GitHub, last'.upstream_repo)
           IN
           /\ (last.remotes.upstream # computed /\ "update" \notin last'.flags)
              => /\ last'.exit = 1
                 /\ last'.remotes = last.remotes
                 /\ last'.pull_ff = last.pull_ff
           /\ last.remotes.upstream = computed
              => last'.remotes = last.remotes ]_vars

\* an upstream_add given a well-formed --repo, and no --update, has stopped
\* before an upstream remote of another URL, with pull.ff not set
C39_Witness ==
    /\ last.cmd = "upstream_add"
    /\ last.outcome = "needsUpdate"
    /\ "update" \notin last.flags
    /\ "dry_run" \notin last.flags
    /\ "upstream" \in DOMAIN last.remotes
    /\ last.remotes.upstream.repo # last.upstream_repo
    /\ last.pull_ff = "unset"

----------------------------------------------------------------------------
(* Where a slug leads *)

\* the characters of the slugs that name a place: a letter, the dot, the
\* slash and the space
PathAlphabet == {"a", ".", "/", " "}

PathSlugs == UNION { [1 .. n -> PathAlphabet] : n \in 0 .. MaxSlugLen }

\* the components of a path, read from position i on with the component cur
\* begun: empty components and "." are skipped, ".." steps to the parent
RECURSIVE Walk(_, _, _, _)
Walk(p, i, cur, done) ==
    LET closed == IF cur = <<>> \/ cur = <<".">> THEN done
                  ELSE IF cur = <<".", ".">>
                  THEN (IF done = <<>> THEN done
                        ELSE SubSeq(done, 1, Len(done) - 1))
                  ELSE Append(done, cur)
    IN
    IF i > Len(p) THEN closed
    ELSE IF p[i] = "/" THEN Walk(p, i + 1, <<>>, closed)
    ELSE Walk(p, i + 1, Append(cur, p[i]), done)

\* the directory an absolute path names on disk
Resolved(p) == Walk(p, 1, <<>>, <<>>)

\* {repoParentDir}/wt/{repoName}: the directory the worktrees are kept in
WorktreeArea == Join(Join(Parent(RepoRoot), WtDirName), Name(RepoRoot))

InitPath ==
    /\ heads = [b \in {base} |-> <<>>]
    /\ head = base
    /\ dirty = "clean"
    /\ upstreamRemote = <<>>
    /\ originRemote = <<>>
    /\ upstreamRef = <<>>
    /\ originRef = <<>>
    /\ clock = 0
    /\ worktrees = <<>>
    /\ plainDirs = {}
    /\ remoteFeat = {}
    /\ prs = {}
    /\ cwd = RepoRoot
    /\ last \in { Argument("validate_slug", raw) : raw \in PathSlugs }

SpecPath == InitPath /\ [][ValidateSlug]_vars

\* C36: the worktree path derived from a slug that validate_slug returns
\* names a directory strictly below the directory the worktrees are kept in.
C36_PathStaysInWorktreeArea ==
    (last.cmd = "validate_slug" /\ last.outcome = "returned")
    => LET area == Resolved(WorktreeArea)
           path == Resolved(last.worktree_path)
       IN Len(area) < Len(path) /\ SubSeq(path, 1, Len(area)) = area

-----------------------------------------------------------------------------
(* Clean without the confirm flag *)

\* what a clean is about, before it runs: the worktree directory, the local
\* branch, the branch on the fork
WorktreeThere(r) == Exists(TargetPath(r))

LocalBranchThere(r) == BranchName(r.slug) \in DOMAIN heads

RemoteBranchThere(r) == BranchName(r.slug) \in remoteFeat

Removals == {"worktree remove", "branch -d", "branch -D", "push --delete"}

\* the clean just taken removed nothing: no removal or deletion command was
\* attempted, and the worktrees, the branches and the fork are as before
RemovedNothing ==
    /\ \A i \in DOMAIN last'.ops : last'.ops[i] \notin Removals
    /\ UNCHANGED <<worktrees, heads, remoteFeat, plainDirs>>

\* C37 as stated: a wt_clean without confirm, when the worktree, the local
\* branch or the remote branch exists, removes nothing and exits non-zero.
C37_UnconfirmedCleanFails ==
    [][ (/\ last'.cmd = "wt_clean"
         /\ "confirm" \notin last'.flags
         /\ (WorktreeThere(last') \/ LocalBranchThere(last')
             \/ RemoteBranchThere(last')))
        => (RemovedNothing /\ last'.exit # 0) ]_vars

\* C37: a wt_clean without confirm, when the worktree, the local branch or
\* the remote branch exists, removes nothing; without the preview flag, and
\* when the worktree or the local branch exists, it exits non-zero, and with
\* the preview flag it exits zero.
C37_UnconfirmedCleanRemovesNothing ==
    [][ (/\ last'.cmd = "wt_clean"
         /\ "confirm" \notin last'.flags
         /\ (WorktreeThere(last') \/ LocalBranchThere(last')
             \/ RemoteBranchThere(last')))
        => (/\ RemovedNothing
            /\ ("dry_run_preview" \in last'.flags => last'.exit = 0)
            /\ (/\ "dry_run_preview" \notin last'.flags
                /\ (WorktreeThere(last') \/ LocalBranchThere(last'))
                => last'.exit # 0)) ]_vars

\* a real clean without confirm and without preview, of a worktree whose
\* branch is also on the fork, was refused at the confirmation
C37_Witness ==
    /\ last.cmd = "wt_clean"
    /\ RealRun(last)
    /\ "confirm" \notin last.flags
    /\ "dry_run_preview" \notin last.flags
    /\ last.outcome = "unconfirmed"
    /\ last.exit = 1
    /\ WorktreeThere(last)
    /\ LocalBranchThere(last)
    /\ RemoteBranchThere(last)

-----------------------------------------------------------------------------
(* Create depends on the sync of the base branch *)

\* the main working tree has changes or untracked files
TreeHasChanges == dirty # "clean"

\* the local base branch and the upstream base branch each hold a commit the
\* other does not
BaseAndUpstreamApart ==
    /\ ~IsAncestor(heads[base], upstreamRemote)
    /\ ~IsAncestor(upstreamRemote, heads[base])

\* C38: a wt_new started with uncommitted changes in the main working tree,
\* or, when it is not a dry run, with the base branch and upstream's base
\* branch diverged, exits non-zero, attempts no worktree add, and leaves the
\* worktrees and the set of local branches as they were.
C38_CreateDependsOnSync ==
    [][ (/\ last'.cmd = "wt_new"
         /\ (TreeHasChanges \/ (RealRun(last') /\ BaseAndUpstreamApart)))
        => (/\ last'.exit # 0
            /\ \A i \in DOMAIN last'.ops :
                 last'.ops[i] \notin {"worktree add", "worktree add -b"}
            /\ worktrees' = worktrees
            /\ DOMAIN heads' = DOMAIN heads) ]_vars

\* a real wt_new was stopped by the divergence of the base branch, and no
\* worktree and no feature branch of its slug is there
C38_Witness ==
    /\ last.cmd = "wt_new"
    /\ RealRun(last)
    /\ last.outcome = "blockedDiverged"
    /\ last.exit = 1
    /\ TargetPath(last) \notin DOMAIN worktrees
    /\ BranchName(last.slug) \notin DOMAIN heads

====
